---- MODULE Spec2Model ----
(***************************************************************************)
(* Model of the reconciliation engine of mini-reconciliation-tool:         *)
(*   - the Matcher (reconcileTransactions, findFieldMismatches),           *)
(*   - the Batch Orchestrator (processBatchReconciliation,                 *)
(*     calculateBatchStats).                                               *)
(*                                                                         *)
(* JavaScript values are tagged records.  Strings are sequences of         *)
(* one-character strings so that trim, toLowerCase and parseFloat are      *)
(* computed character by character.  Amounts are counted in thousandths    *)
(* (1000 = 1.00), so the tolerance 0.01 is 10.  Objects held by reference  *)
(* (Transaction, FilePair) are named by their position in the array that   *)
(* owns them.                                                              *)
(***************************************************************************)
EXTENDS Integers, Sequences, FiniteSets, TLC

\* ------------------------------------------------------------------------
\* Bounds of the model
\* ------------------------------------------------------------------------
\* longest internal collection handed to the Matcher
MaxInternal == 3
\* longest provider collection handed to the Matcher
MaxProvider == 3
\* largest number of file pairs in one batch
MaxPairs == 2
\* number of processBatchReconciliation calls made over the same pairs
MaxRuns == 2
\* number of saveReconciliationResult calls made on one history
MaxSaves == 2
\* longest history handed to the Aggregator
MaxHistory == 3

\* ------------------------------------------------------------------------
\* JavaScript values
\* ------------------------------------------------------------------------
Undefined == [t |-> "undefined"]
Null == [t |-> "null"]
NaN == [t |-> "nan"]
Num(n) == [t |-> "num", n |-> n]
Str(s) == [t |-> "str", s |-> s]

\* `v == null` in JavaScript: true of null and of undefined
IsNullish(v) == v.t \in {"undefined", "null"}

Abs(x) == IF x < 0 THEN -x ELSE x

Whitespace == {" ", "\t"}

RECURSIVE TrimStart(_)
TrimStart(s) ==
  IF s # <<>> /\ Head(s) \in Whitespace THEN TrimStart(Tail(s)) ELSE s

RECURSIVE TrimEnd(_)
TrimEnd(s) ==
  IF s # <<>> /\ s[Len(s)] \in Whitespace
  THEN TrimEnd(SubSeq(s, 1, Len(s) - 1))
  ELSE s

\* String.prototype.trim
Trim(s) == TrimEnd(TrimStart(s))

\* the letters the model's strings are written with
UpperCase == <<"A", "B", "K", "N", "O">>
LowerCase == <<"a", "b", "k", "n", "o">>

LowerChar(c) ==
  IF \E k \in 1..Len(UpperCase) : UpperCase[k] = c
  THEN LowerCase[CHOOSE k \in 1..Len(UpperCase) : UpperCase[k] = c]
  ELSE c

\* String.prototype.toLowerCase
ToLowerCase(s) == [k \in 1..Len(s) |-> LowerChar(s[k])]

Digits == <<"0", "1", "2", "3", "4", "5", "6", "7", "8", "9">>

IsDigit(c) == \E k \in 1..Len(Digits) : Digits[k] = c

DigitVal(c) == (CHOOSE k \in 1..Len(Digits) : Digits[k] = c) - 1

RECURSIVE DigitsPrefixLen(_)
DigitsPrefixLen(s) ==
  IF s = <<>> \/ ~IsDigit(Head(s)) THEN 0 ELSE 1 + DigitsPrefixLen(Tail(s))

RECURSIVE NatOf(_)
NatOf(ds) ==
  IF ds = <<>> THEN 0
  ELSE NatOf(SubSeq(ds, 1, Len(ds) - 1)) * 10 + DigitVal(ds[Len(ds)])

\* the first three fraction digits, in thousandths
FracMilli(ds) ==
  (IF Len(ds) >= 1 THEN DigitVal(ds[1]) * 100 ELSE 0)
  + (IF Len(ds) >= 2 THEN DigitVal(ds[2]) * 10 ELSE 0)
  + (IF Len(ds) >= 3 THEN DigitVal(ds[3]) ELSE 0)

\* the longest prefix of digits, and what follows it
DigitsPrefix(s) == SubSeq(s, 1, DigitsPrefixLen(s))

AfterDigits(s) == SubSeq(s, DigitsPrefixLen(s) + 1, Len(s))

\* the characters after a decimal point, if the text starts with one
FractionOf(rest) ==
  IF rest # <<>> /\ Head(rest) = "." THEN Tail(rest) ELSE <<>>

HasSign(t) == t # <<>> /\ Head(t) \in {"-", "+"}

IsNegative(t) == t # <<>> /\ Head(t) = "-"

Unsigned(t) == IF HasSign(t) THEN Tail(t) ELSE t

\* the number written by integer digits and fraction digits, NaN when there
\* is no digit at all
NumberOf(intDigits, fracDigits, negative) ==
  IF intDigits = <<>> /\ fracDigits = <<>> THEN NaN
  ELSE Num((IF negative THEN -1 ELSE 1)
             * (NatOf(intDigits) * 1000 + FracMilli(fracDigits)))

ParseUnsigned(u, negative) ==
  NumberOf(DigitsPrefix(u), DigitsPrefix(FractionOf(AfterDigits(u))), negative)

ParseSigned(t) == ParseUnsigned(Unsigned(t), IsNegative(t))

\* parseFloat: leading whitespace, sign, digits, fraction; the rest of the
\* string is ignored; NaN when no digit is found
ParseFloat(s) == ParseSigned(TrimStart(s))

\* ------------------------------------------------------------------------
\* Matcher: findFieldMismatches
\* ------------------------------------------------------------------------
\* 0.01, in thousandths
Tolerance == 10

fieldsToCompare == <<"amount", "status", "date">>

\* typeof v === 'number' ? v : parseFloat(v)
ToAmount(v) == IF v.t \in {"num", "nan"} THEN v ELSE ParseFloat(v.s)

\* mutant of NumbersClose: a difference of exactly 0.01 still matches
NumbersClose_Inclusive(a, b) ==
  a.t = "num" /\ b.t = "num" /\ Abs(a.n - b.n) <= 10

\* Math.abs(a - b) < 0.01; every comparison with NaN is false
NumbersClose(a, b) ==
  a.t = "num" /\ b.t = "num" /\ Abs(a.n - b.n) < Tolerance

\* mutant of AmountsMatch: the amounts are compared without any tolerance
AmountsMatch_Exact(iv, pv) ==
  ToAmount(iv).t = "num" /\ ToAmount(iv) = ToAmount(pv)

AmountsMatch(iv, pv) == NumbersClose(ToAmount(iv), ToAmount(pv))

\* mutant of TextsMatch: status and date are never reported
TextsMatch_Always(iv, pv) == TRUE

\* v.toString().toLowerCase() of both sides compared with ===
TextsMatch(iv, pv) == ToLowerCase(iv.s) = ToLowerCase(pv.s)

ValuesMatch(field, iv, pv) ==
  IF field = "amount" THEN AmountsMatch(iv, pv) ELSE TextsMatch(iv, pv)

\* the body of fieldsToCompare.forEach for one field: what it pushes
FieldMismatch(field, internalValue, providerValue) ==
  IF IsNullish(internalValue) \/ IsNullish(providerValue) THEN <<>>
  ELSE IF ValuesMatch(field, internalValue, providerValue) THEN <<>>
  ELSE <<[field |-> field, internalValue |-> internalValue,
          providerValue |-> providerValue]>>

RECURSIVE MismatchesFrom(_, _, _)
MismatchesFrom(k, internal, provider) ==
  IF k > Len(fieldsToCompare) THEN <<>>
  ELSE FieldMismatch(fieldsToCompare[k], internal[fieldsToCompare[k]],
                     provider[fieldsToCompare[k]])
       \o MismatchesFrom(k + 1, internal, provider)

findFieldMismatches(internal, provider) == MismatchesFrom(1, internal, provider)

\* ------------------------------------------------------------------------
\* Matcher: reconcileTransactions
\* ------------------------------------------------------------------------
\* A Map<string, Transaction> is the sequence of its entries in insertion
\* order; the value of an entry is the position of the Transaction object in
\* the input array.
MapHas(m, key) == \E k \in 1..Len(m) : m[k].key = key

MapGet(m, key) == m[CHOOSE k \in 1..Len(m) : m[k].key = key].value

\* mutant of MapSet: setting an existing key moves it to the end
MapSet_MoveToEnd(m, key, value) ==
  Append(SelectSeq(m, LAMBDA e : e.key # key), [key |-> key, value |-> value])

\* mutant of MapSet: the first record of a reference is kept
MapSet_KeepFirst(m, key, value) ==
  IF \E k \in 1..Len(m) : m[k].key = key THEN m
  ELSE Append(m, [key |-> key, value |-> value])

\* Map.prototype.set: a new key is appended, an existing key keeps its place
\* and takes the new value
MapSet(m, key, value) ==
  IF MapHas(m, key)
  THEN [k \in 1..Len(m) |->
          IF m[k].key = key THEN [key |-> key, value |-> value] ELSE m[k]]
  ELSE Append(m, [key |-> key, value |-> value])

\* mutant of MapDelete: the matched key stays in the provider map
MapDelete_KeepsKey(m, key) == m

\* Map.prototype.delete
MapDelete(m, key) == SelectSeq(m, LAMBDA e : e.key # key)

\* the values of a map in iteration order
MapValues(m) == [k \in 1..Len(m) |-> m[k].value]

\* mutant of RefKey: the reference is used as the key without trimming
RefKey_Untrimmed(transaction) == transaction.transaction_reference.s

\* transaction.transaction_reference.toString().trim()
RefKey(transaction) == Trim(transaction.transaction_reference.s)

RECURSIVE PopulateFrom(_, _, _)
PopulateFrom(data, k, m) ==
  IF k > Len(data) THEN m
  ELSE PopulateFrom(data, k + 1, MapSet(m, RefKey(data[k]), k))

\* data.forEach(transaction => map.set(ref, transaction))
PopulateMap(data) == PopulateFrom(data, 1, <<>>)

\* matched.push({internal, provider, mismatches})
TransactionMatch(internalTx, providerTx, internalData, providerData) ==
  [internal |-> internalTx, provider |-> providerTx,
   mismatches |-> findFieldMismatches(internalData[internalTx],
                                      providerData[providerTx])]

\* the body of internalMap.forEach for one entry; acc carries matched,
\* internalOnly and the provider map with the matched keys deleted
MatchStep(acc, ref, internalTx, internalData, providerData) ==
  IF MapHas(acc.providerMap, ref)
  THEN [matched |-> Append(acc.matched,
                      TransactionMatch(internalTx, MapGet(acc.providerMap, ref),
                                       internalData, providerData)),
        internalOnly |-> acc.internalOnly,
        providerMap |-> MapDelete(acc.providerMap, ref)]
  ELSE [matched |-> acc.matched,
        internalOnly |-> Append(acc.internalOnly, internalTx),
        providerMap |-> acc.providerMap]

\* the internalMap.forEach loop, from entry k on
RECURSIVE MatchFrom(_, _, _, _, _)
MatchFrom(k, internalMap, internalData, providerData, acc) ==
  IF k > Len(internalMap) THEN acc
  ELSE MatchFrom(k + 1, internalMap, internalData, providerData,
         MatchStep(acc, internalMap[k].key, internalMap[k].value,
                   internalData, providerData))

\* mutant of Rate: the division is not guarded
Rate_Unguarded(n, d) == [num |-> n * 100, den |-> d]

\* a rate n / d * 100 is kept as the exact fraction num / den
Rate(n, d) == IF d > 0 THEN [num |-> n * 100, den |-> d]
              ELSE [num |-> 0, den |-> 1]

\* the stats object and the ReconciliationResult built from the three lists
ReconciliationResult(internalData, providerData, matched, internalOnly, providerOnly) ==
  [matched |-> matched,
   internalOnly |-> internalOnly,
   providerOnly |-> providerOnly,
   stats |-> [totalInternal |-> Len(internalData),
              totalProvider |-> Len(providerData),
              matched |-> Len(matched),
              internalOnly |-> Len(internalOnly),
              providerOnly |-> Len(providerOnly),
              matchRate |-> Rate(Len(matched), Len(internalData))]]

\* the remaining provider entries become providerOnly
ResultOfLoop(internalData, providerData, acc) ==
  ReconciliationResult(internalData, providerData, acc.matched,
                       acc.internalOnly, MapValues(acc.providerMap))

\* reading transaction_reference.toString() of a record whose reference is
\* undefined or null throws a TypeError
ReferenceThrows(data) ==
  \E k \in 1..Len(data) : IsNullish(data[k].transaction_reference)

TypeErrorMessage == "Cannot read properties of undefined"

Thrown(isError, message) ==
  [threw |-> TRUE, isError |-> isError, message |-> message]

reconcileTransactions(internalData, providerData) ==
  IF ReferenceThrows(internalData) \/ ReferenceThrows(providerData)
  THEN Thrown(TRUE, TypeErrorMessage)
  ELSE [threw |-> FALSE,
        result |->
          ResultOfLoop(internalData, providerData,
            MatchFrom(1, PopulateMap(internalData), internalData, providerData,
              [matched |-> <<>>, internalOnly |-> <<>>,
               providerMap |-> PopulateMap(providerData)]))]

\* durations performance.now() may measure for one call, in ms
MatcherElapsedMs == {0, 2}

\* what the call hands back: { result, processingTimeMs }, or the error
Timed(r, ms) ==
  IF r.threw THEN r
  ELSE [threw |-> FALSE, result |-> r.result, processingTimeMs |-> ms]

\* ------------------------------------------------------------------------
\* Inputs of the model
\* ------------------------------------------------------------------------
Tx(ref, amount, status, date) ==
  [transaction_reference |-> ref, amount |-> amount, status |-> status,
   date |-> date]

RefA == Str(<<"A">>)
RefAPadded == Str(<<" ", "A", " ">>)
RefB == Str(<<"B">>)

\* the records the Matcher's collections are built from: one reference in
\* three spellings and two contents, a second reference, and a record whose
\* reference is missing
CoreTransactions ==
  { Tx(RefA, Num(100500), Str(<<"o", "k">>), Undefined),
    Tx(RefAPadded, Num(100505), Str(<<"O", "K">>), Undefined),
    Tx(RefA, Num(255000), Str(<<"n", "o">>), Undefined),
    Tx(RefB, Num(250000), Str(<<"o", "k">>), Undefined),
    Tx(Undefined, Num(100500), Str(<<"o", "k">>), Undefined) }

\* field values of the records used to exercise findFieldMismatches
AmountValues ==
  { Undefined, Null, Num(100500), Num(100505), Num(100510), Num(0),
    Str(<<"1", "0", "0", ".", "5">>), Str(<<"a", "b">>), Str(<<>>) }

StatusValues ==
  { Undefined, Null, Str(<<"o", "k">>), Str(<<"O", "K">>), Str(<<"n", "o">>) }

DateValues == { Undefined, Str(<<"1", "a">>), Str(<<"1", "A">>), Str(<<"2">>) }

FieldTransactions ==
  { Tx(RefA, a, s, d) : a \in AmountValues, s \in StatusValues,
                        d \in DateValues }

\* the basic sample pair of the test-data README: references, amounts and
\* statuses as listed there; a field the README does not give is absent on
\* both sides
Txn(d1, d2) == Str(<<"T", "X", "N", "0", d1, d2>>)

StatusCompleted == Str(<<"c", "o", "m", "p", "l", "e", "t", "e", "d">>)
StatusPending == Str(<<"p", "e", "n", "d", "i", "n", "g">>)
StatusFailed == Str(<<"f", "a", "i", "l", "e", "d">>)

\* internal-system.csv: TXN001 .. TXN008
SampleInternal ==
  << Tx(Txn("0", "1"), Num(100500), StatusCompleted, Undefined),
     Tx(Txn("0", "2"), Num(250000), Undefined, Undefined),
     Tx(Txn("0", "3"), Num(75250), StatusPending, Undefined),
     Tx(Txn("0", "4"), Num(500000), StatusCompleted, Undefined),
     Tx(Txn("0", "5"), Num(25990), StatusFailed, Undefined),
     Tx(Txn("0", "6"), Num(150000), StatusCompleted, Undefined),
     Tx(Txn("0", "7"), Undefined, StatusCompleted, Undefined),
     Tx(Txn("0", "8"), Num(45500), StatusPending, Undefined) >>

\* provider-statement.csv: TXN001, 002, 004, 006, 007, 009, 010
SampleProvider ==
  << Tx(Txn("0", "1"), Num(100500), StatusCompleted, Undefined),
     Tx(Txn("0", "2"), Num(255000), Undefined, Undefined),
     Tx(Txn("0", "4"), Num(500000), StatusCompleted, Undefined),
     Tx(Txn("0", "6"), Num(150000), StatusCompleted, Undefined),
     Tx(Txn("0", "7"), Undefined, StatusPending, Undefined),
     Tx(Txn("0", "9"), Num(89990), StatusCompleted, Undefined),
     Tx(Txn("1", "0"), Num(199500), StatusFailed, Undefined) >>

\* ------------------------------------------------------------------------
\* Batch Orchestrator: values
\* ------------------------------------------------------------------------
\* an error message (opaque text)
Message(text) == [t |-> "message", text |-> text]

\* a Date object
Date == [t |-> "date"]

ParsedFile(name, data) == [name |-> name, data |-> data]

\* createFilePair: a new pair is pending and has no result, error or
\* processedAt
NewFilePair(internalFile, providerFile) ==
  [internalFile |-> internalFile, providerFile |-> providerFile,
   status |-> "pending", result |-> Undefined, error |-> Undefined,
   processedAt |-> Undefined]

TxA == Tx(RefA, Num(100500), Str(<<"o", "k">>), Undefined)
TxAPadded == Tx(RefAPadded, Num(100505), Str(<<"O", "K">>), Undefined)
TxALater == Tx(RefA, Num(255000), Str(<<"n", "o">>), Undefined)
TxB == Tx(RefB, Num(250000), Str(<<"o", "k">>), Undefined)
TxNoRef == Tx(Undefined, Num(100500), Str(<<"o", "k">>), Undefined)

FileThree == ParsedFile("three.csv", <<TxA, TxB, TxALater>>)
FileOne == ParsedFile("one.csv", <<TxAPadded>>)
FileEmpty == ParsedFile("empty.csv", <<>>)
FileNoRef == ParsedFile("noref.json", <<TxB, TxNoRef>>)

\* the pairs a batch is made of: two that reconcile, one whose internal file
\* is empty, one whose record lacks a reference and one whose internal file
\* is missing
PairInputs ==
  { NewFilePair(FileThree, FileOne),
    NewFilePair(FileOne, FileThree),
    NewFilePair(FileEmpty, FileThree),
    NewFilePair(FileNoRef, FileOne),
    NewFilePair(Undefined, FileOne) }

\* all batches of at most MaxPairs pairs
RECURSIVE BatchesOfLength(_)
BatchesOfLength(n) ==
  IF n = 0 THEN {<<>>}
  ELSE {Append(b, pair) : b \in BatchesOfLength(n - 1), pair \in PairInputs}

Batches == UNION {BatchesOfLength(n) : n \in 0..MaxPairs}

\* what a caller-supplied callback does: return (also when it is absent),
\* throw an Error, or throw a value that is not an Error
CallbackError == "callback failed"

Returns == [threw |-> FALSE]

CallbackOutcomes == {Returns, Thrown(TRUE, CallbackError), Thrown(FALSE, "")}

UnknownProcessingError == "Unknown processing error"

\* wall-clock durations a run may measure, in ms
ElapsedMs == {0, 1500}

\* ------------------------------------------------------------------------
\* Batch Orchestrator: calculateBatchStats
\* ------------------------------------------------------------------------
\* mutant of IsSuccessful: a completed pair without matches is not counted
IsSuccessful_NeedsMatches(pair) ==
  /\ pair.status = "completed"
  /\ pair.result # Undefined
  /\ pair.result.stats.matched > 0

\* mutant of IsSuccessful: any pair carrying a result counts as successful
IsSuccessful_IgnoresStatus(pair) == pair.result # Undefined

\* pair.status === 'completed' && pair.result
IsSuccessful(pair) == pair.status = "completed" /\ pair.result # Undefined

RECURSIVE SumStats(_, _)
SumStats(pairs, field) ==
  IF pairs = <<>> THEN 0
  ELSE Head(pairs).result.stats[field] + SumStats(Tail(pairs), field)

\* processingTimeMs / filePairs.length, kept as an exact fraction
Average(ms, n) == IF n > 0 THEN [num |-> ms, den |-> n]
                  ELSE [num |-> 0, den |-> 1]

\* mutant of BatchStats: the overall rate is taken over the provider records
BatchStats_RateOverProvider(pairs, successfulPairs, failedPairs, processingTimeMs) ==
  [totalFilePairs |-> Len(pairs),
   successfulPairs |-> Len(successfulPairs),
   failedPairs |-> Len(failedPairs),
   totalTransactionsInternal |-> SumStats(successfulPairs, "totalInternal"),
   totalTransactionsProvider |-> SumStats(successfulPairs, "totalProvider"),
   totalMatched |-> SumStats(successfulPairs, "matched"),
   totalInternalOnly |-> SumStats(successfulPairs, "internalOnly"),
   totalProviderOnly |-> SumStats(successfulPairs, "providerOnly"),
   overallMatchRate |-> Rate(SumStats(successfulPairs, "matched"),
                             SumStats(successfulPairs, "totalProvider")),
   averageProcessingTime |-> Average(processingTimeMs, Len(pairs))]

\* the BatchStats object built from the two filtered lists
BatchStats(pairs, successfulPairs, failedPairs, processingTimeMs) ==
  [totalFilePairs |-> Len(pairs),
   successfulPairs |-> Len(successfulPairs),
   failedPairs |-> Len(failedPairs),
   totalTransactionsInternal |-> SumStats(successfulPairs, "totalInternal"),
   totalTransactionsProvider |-> SumStats(successfulPairs, "totalProvider"),
   totalMatched |-> SumStats(successfulPairs, "matched"),
   totalInternalOnly |-> SumStats(successfulPairs, "internalOnly"),
   totalProviderOnly |-> SumStats(successfulPairs, "providerOnly"),
   overallMatchRate |-> Rate(SumStats(successfulPairs, "matched"),
                             SumStats(successfulPairs, "totalInternal")),
   averageProcessingTime |-> Average(processingTimeMs, Len(pairs))]

calculateBatchStats(pairs, processingTimeMs) ==
  BatchStats(pairs, SelectSeq(pairs, IsSuccessful),
             SelectSeq(pairs, LAMBDA pair : pair.status = "failed"),
             processingTimeMs)

\* ------------------------------------------------------------------------
\* Batch Orchestrator: what happens to a pair
\* ------------------------------------------------------------------------
\* pair.status = status
StatusSet(status) == [e |-> "status", status |-> status]

\* onProgress(current, total, pair)
ProgressCall(current, total, pair) ==
  [e |-> "onProgress", current |-> current, total |-> total, pair |-> pair]

\* onPairCompleted(pair) or onPairFailed(pair, pair.error)
PairCall(callback, pair) == [e |-> callback, pair |-> pair]

MatcherCall == [e |-> "reconcileTransactions"]

\* reconcileTransactions is entered once its two arguments are evaluated:
\* not when reading .data of a missing file has thrown
MatcherEntered(pair) ==
  IF pair.internalFile = Undefined \/ pair.providerFile = Undefined
  THEN <<>>
  ELSE <<MatcherCall>>

\* ------------------------------------------------------------------------
\* State
\* ------------------------------------------------------------------------
NoOutcome == [threw |-> FALSE, none |-> TRUE]

VARIABLES
  internalData,   \* the Matcher's first argument
  providerData,   \* the Matcher's second argument
  outcome,        \* what the latest reconcileTransactions call returned or threw
  previous,       \* what the call before the latest returned or threw
  filePairs,      \* the FilePair objects handed to processBatchReconciliation
  pc,             \* where the running call stands; "idle" between calls
  i,              \* the loop index of the running call
  processedPairs, \* processedPairs: positions of the pairs pushed so far
  caught,         \* the value the catch clause received
  promise,        \* state of the promise of the latest call
  returned,       \* the BatchReconciliationResult the latest call resolved with
  runs,           \* number of calls started
  callbackThrew,  \* some callback threw during the latest call
  events,         \* what happened to the pair the loop is at, in order
  app,            \* the state hooks of the App component
  inFlight,       \* the handler of App suspended at an await, if any
  stored,         \* the localStorage item of the history; Null if none
  lastSaved,      \* the result of the latest save that succeeded, if any
  nextId,         \* the id generateId gives next
  currentResult,  \* the result handed to the Aggregator
  historicalRecords, \* the historical records handed to the Aggregator
  analytics       \* what the latest call of the Aggregator returned

matcherVars == <<internalData, providerData, outcome, previous>>

batchVars == <<filePairs, pc, i, processedPairs, caught, promise, returned,
               runs, callbackThrew, events>>

appVars == <<app, inFlight>>

storeVars == <<stored, lastSaved, nextId>>

aggregatorVars == <<currentResult, historicalRecords, analytics>>

\* what neither the Matcher nor the Batch Orchestrator touches
restVars == <<appVars, storeVars, aggregatorVars>>

vars == <<internalData, providerData, outcome, previous, filePairs, pc, i,
          processedPairs, caught, promise, returned, runs, callbackThrew,
          events, app, inFlight, stored, lastSaved, nextId, currentResult,
          historicalRecords, analytics>>

MatcherIdle ==
  /\ internalData = <<>>
  /\ providerData = <<>>
  /\ outcome = NoOutcome
  /\ previous = NoOutcome

BatchIdle ==
  /\ pc = "idle"
  /\ i = 0
  /\ processedPairs = <<>>
  /\ caught = Returns
  /\ promise = "none"
  /\ returned = Undefined
  /\ runs = 0
  /\ callbackThrew = FALSE
  /\ events = <<>>

\* App.tsx:27-44, the initial values of the state hooks
AppIdle ==
  /\ app = [processingMode |-> "single", internalFile |-> Null,
            providerFile |-> Null, reconciliationResult |-> Null,
            isProcessing |-> FALSE, error |-> Null, filePairs |-> <<>>,
            batchErrors |-> <<>>, batchResult |-> Null, batchProgress |-> Null]
  /\ inFlight = [kind |-> "none"]

MAX_HISTORICAL_RECORDS == 100

\* the ids generateId hands out differ from those in use
FirstNewId == MAX_HISTORICAL_RECORDS + 2

\* nothing is stored
StoreIdle ==
  /\ stored = [present |-> FALSE]
  /\ lastSaved = Null
  /\ nextId = FirstNewId

\* the Aggregator has been handed nothing
AggregatorIdle ==
  /\ currentResult = Null
  /\ historicalRecords = <<>>
  /\ analytics = Null

RestIdle ==
  /\ AppIdle
  /\ StoreIdle
  /\ AggregatorIdle

\* ------------------------------------------------------------------------
\* The Matcher applied to bounded inputs
\* ------------------------------------------------------------------------
MatcherInit ==
  /\ MatcherIdle
  /\ filePairs = <<>>
  /\ BatchIdle
  /\ RestIdle

\* the collections built so far hold records of CoreTransactions only
BuiltFromCore ==
  /\ \A k \in 1..Len(internalData) : internalData[k] \in CoreTransactions
  /\ \A k \in 1..Len(providerData) : providerData[k] \in CoreTransactions

\* a collection is not extended past a record without a reference: the
\* populate loop throws at that record whatever follows it
AddInternal ==
  /\ outcome = NoOutcome
  /\ BuiltFromCore
  /\ ~ReferenceThrows(internalData)
  /\ Len(internalData) < MaxInternal
  /\ \E tx \in CoreTransactions : internalData' = Append(internalData, tx)
  /\ UNCHANGED <<providerData, outcome, previous>>
  /\ UNCHANGED <<batchVars, restVars>>

AddProvider ==
  /\ outcome = NoOutcome
  /\ BuiltFromCore
  /\ ~ReferenceThrows(providerData)
  /\ Len(providerData) < MaxProvider
  /\ \E tx \in CoreTransactions : providerData' = Append(providerData, tx)
  /\ UNCHANGED <<internalData, outcome, previous>>
  /\ UNCHANGED <<batchVars, restVars>>

\* one internal and one provider record with the same reference and any
\* combination of field values
LoadFieldCase ==
  /\ outcome = NoOutcome
  /\ internalData = <<>>
  /\ providerData = <<>>
  /\ \E a \in FieldTransactions, b \in FieldTransactions :
       /\ internalData' = <<a>>
       /\ providerData' = <<b>>
  /\ UNCHANGED <<outcome, previous>>
  /\ UNCHANGED <<batchVars, restVars>>

\* the two files of the README's basic sample are uploaded
LoadSample ==
  /\ outcome = NoOutcome
  /\ internalData = <<>>
  /\ providerData = <<>>
  /\ internalData' = SampleInternal
  /\ providerData' = SampleProvider
  /\ UNCHANGED <<outcome, previous>>
  /\ UNCHANGED <<batchVars, restVars>>

\* mutant of Reconcile: the matched provider records are spliced out of the
\* provider array
Reconcile_SplicesProvider ==
  /\ previous = NoOutcome
  /\ \E r \in {reconcileTransactions(internalData, providerData)} :
       /\ \E ms \in MatcherElapsedMs : outcome' = Timed(r, ms)
       /\ providerData' =
            IF r.threw THEN providerData
            ELSE [k \in 1..Len(r.result.providerOnly) |->
                    providerData[r.result.providerOnly[k]]]
  /\ previous' = outcome
  /\ UNCHANGED internalData
  /\ UNCHANGED <<batchVars, restVars>>

\* a call reconcileTransactions(internalData, providerData); the same
\* collections may be reconciled a second time
Reconcile ==
  /\ previous = NoOutcome
  /\ \E ms \in MatcherElapsedMs :
       outcome' = Timed(reconcileTransactions(internalData, providerData), ms)
  /\ previous' = outcome
  /\ UNCHANGED <<internalData, providerData>>
  /\ UNCHANGED <<batchVars, restVars>>

\* the collections are reconciled once
ReconcileOnce == outcome = NoOutcome /\ Reconcile

MatcherNext ==
  \/ AddInternal
  \/ AddProvider
  \/ LoadFieldCase
  \/ LoadSample
  \/ ReconcileOnce

SpecMatcher == MatcherInit /\ [][MatcherNext]_vars

\* the same collections are reconciled up to two times
RepeatNext ==
  \/ AddInternal
  \/ AddProvider
  \/ LoadSample
  \/ Reconcile

SpecRepeat == MatcherInit /\ [][RepeatNext]_vars

\* ------------------------------------------------------------------------
\* Batch Orchestrator: processBatchReconciliation
\* ------------------------------------------------------------------------
Init ==
  /\ MatcherIdle
  /\ filePairs \in Batches
  /\ BatchIdle
  /\ RestIdle

\* the pair the loop is at: filePairs[i]
Current == i + 1

\* a call of processBatchReconciliation(filePairs, callbacks)
StartRun ==
  /\ pc = "idle"
  /\ runs < MaxRuns
  /\ runs' = runs + 1
  /\ i' = 0
  /\ processedPairs' = <<>>
  /\ caught' = Returns
  /\ promise' = "pending"
  /\ returned' = Undefined
  /\ callbackThrew' = FALSE
  /\ events' = <<>>
  /\ pc' = "loop"
  /\ UNCHANGED filePairs
  /\ UNCHANGED <<matcherVars, restVars>>

\* i < filePairs.length; pair.status = 'processing'
BeginPair ==
  /\ pc = "loop"
  /\ i < Len(filePairs)
  /\ filePairs' = [filePairs EXCEPT ![Current].status = "processing"]
  /\ events' = <<StatusSet("processing")>>
  /\ pc' = "onProgress"
  /\ UNCHANGED <<i, processedPairs, caught, promise, returned, runs,
                 callbackThrew>>
  /\ UNCHANGED <<matcherVars, restVars>>

\* callbacks?.onProgress?.(i + 1, filePairs.length, pair), then the await
OnProgress ==
  /\ pc = "onProgress"
  /\ \E r \in CallbackOutcomes :
       IF r.threw
       THEN /\ caught' = r
            /\ callbackThrew' = TRUE
            /\ pc' = "catch"
       ELSE /\ pc' = "await"
            /\ UNCHANGED <<caught, callbackThrew>>
  /\ events' = Append(events, ProgressCall(i + 1, Len(filePairs), Current))
  /\ UNCHANGED <<filePairs, i, processedPairs, promise, returned, runs>>
  /\ UNCHANGED <<matcherVars, restVars>>

\* the timer of the awaited delay fires and the call resumes
Resume ==
  /\ pc = "await"
  /\ pc' = "reconcile"
  /\ UNCHANGED <<filePairs, i, processedPairs, caught, promise, returned,
                 runs, callbackThrew, events>>
  /\ UNCHANGED <<matcherVars, restVars>>

\* reconcileTransactions(pair.internalFile.data, pair.providerFile.data);
\* reading .data of a missing file throws a TypeError
ReconcilePairOutcome(pair) ==
  IF pair.internalFile = Undefined \/ pair.providerFile = Undefined
  THEN Thrown(TRUE, TypeErrorMessage)
  ELSE reconcileTransactions(pair.internalFile.data, pair.providerFile.data)

\* mutant of ReconcilePair: an error of the Matcher is not caught and ends
\* the call
ReconcilePair_Uncaught ==
  /\ pc = "reconcile"
  /\ \E r \in {ReconcilePairOutcome(filePairs[Current])} :
        IF r.threw
        THEN /\ promise' = "rejected"
             /\ pc' = "idle"
             /\ events' = events \o MatcherEntered(filePairs[Current])
             /\ UNCHANGED filePairs
        ELSE /\ filePairs' = [filePairs EXCEPT
                                ![Current].status = "completed",
                                ![Current].result = r.result,
                                ![Current].processedAt = Date]
             /\ events' = events \o MatcherEntered(filePairs[Current])
                             \o <<StatusSet("completed")>>
             /\ pc' = "onPairCompleted"
             /\ UNCHANGED promise
  /\ UNCHANGED <<i, processedPairs, caught, returned, runs, callbackThrew>>
  /\ UNCHANGED <<matcherVars, restVars>>

\* the Matcher runs; on success the pair is completed and takes the result
ReconcilePair ==
  /\ pc = "reconcile"
  /\ \E r \in {ReconcilePairOutcome(filePairs[Current])} :
        IF r.threw
        THEN /\ caught' = r
             /\ pc' = "catch"
             /\ events' = events \o MatcherEntered(filePairs[Current])
             /\ UNCHANGED filePairs
        ELSE /\ filePairs' = [filePairs EXCEPT
                                ![Current].status = "completed",
                                ![Current].result = r.result,
                                ![Current].processedAt = Date]
             /\ events' = events \o MatcherEntered(filePairs[Current])
                             \o <<StatusSet("completed")>>
             /\ pc' = "onPairCompleted"
             /\ UNCHANGED caught
  /\ UNCHANGED <<i, processedPairs, promise, returned, runs, callbackThrew>>
  /\ UNCHANGED <<matcherVars, restVars>>

\* callbacks?.onPairCompleted?.(pair), still inside the try block
OnPairCompleted ==
  /\ pc = "onPairCompleted"
  /\ \E r \in CallbackOutcomes :
       IF r.threw
       THEN /\ caught' = r
            /\ callbackThrew' = TRUE
            /\ pc' = "catch"
       ELSE /\ pc' = "push"
            /\ UNCHANGED <<caught, callbackThrew>>
  /\ events' = Append(events, PairCall("onPairCompleted", Current))
  /\ UNCHANGED <<filePairs, i, processedPairs, promise, returned, runs>>
  /\ UNCHANGED <<matcherVars, restVars>>

\* error instanceof Error ? error.message : 'Unknown processing error'
ErrorText(error) ==
  IF error.isError THEN error.message ELSE UnknownProcessingError

\* mutant of CatchError: the catch clause records the error but leaves the
\* status as it is
CatchError_KeepsStatus ==
  /\ pc = "catch"
  /\ filePairs' = [filePairs EXCEPT
                     ![Current].error = Message(ErrorText(caught)),
                     ![Current].processedAt = Date]
  /\ events' = Append(events, StatusSet("failed"))
  /\ pc' = "onPairFailed"
  /\ UNCHANGED <<i, processedPairs, caught, promise, returned, runs,
                 callbackThrew>>
  /\ UNCHANGED <<matcherVars, restVars>>

\* the catch clause: the pair is failed and takes the error message
CatchError ==
  /\ pc = "catch"
  /\ filePairs' = [filePairs EXCEPT
                     ![Current].status = "failed",
                     ![Current].error = Message(ErrorText(caught)),
                     ![Current].processedAt = Date]
  /\ events' = Append(events, StatusSet("failed"))
  /\ pc' = "onPairFailed"
  /\ UNCHANGED <<i, processedPairs, caught, promise, returned, runs,
                 callbackThrew>>
  /\ UNCHANGED <<matcherVars, restVars>>

\* callbacks?.onPairFailed?.(pair, pair.error), inside the catch clause: an
\* error thrown here is not caught and rejects the promise of the call
OnPairFailed ==
  /\ pc = "onPairFailed"
  /\ \E r \in CallbackOutcomes :
       IF r.threw
       THEN /\ promise' = "rejected"
            /\ callbackThrew' = TRUE
            /\ pc' = "idle"
       ELSE /\ pc' = "push"
            /\ UNCHANGED <<promise, callbackThrew>>
  /\ events' = Append(events, PairCall("onPairFailed", Current))
  /\ UNCHANGED <<filePairs, i, processedPairs, caught, returned, runs>>
  /\ UNCHANGED <<matcherVars, restVars>>

\* processedPairs.push(pair); i++
PushPair ==
  /\ pc = "push"
  /\ processedPairs' = Append(processedPairs, Current)
  /\ i' = i + 1
  /\ pc' = "loop"
  /\ UNCHANGED <<filePairs, caught, promise, returned, runs, callbackThrew,
                 events>>
  /\ UNCHANGED <<matcherVars, restVars>>

\* the loop is over: the statistics are computed and the promise resolves
FinishRun ==
  /\ pc = "loop"
  /\ i >= Len(filePairs)
  /\ \E processingTimeMs \in ElapsedMs :
       returned' =
         [filePairs |-> processedPairs,
          aggregateStats |->
            calculateBatchStats(
              [k \in 1..Len(processedPairs) |-> filePairs[processedPairs[k]]],
              processingTimeMs),
          processedAt |-> Date,
          processingTimeMs |-> processingTimeMs]
  /\ promise' = "resolved"
  /\ pc' = "idle"
  /\ UNCHANGED <<filePairs, i, processedPairs, caught, runs, callbackThrew,
                 events>>
  /\ UNCHANGED <<matcherVars, restVars>>

Next ==
  \/ StartRun
  \/ BeginPair
  \/ OnProgress
  \/ Resume
  \/ ReconcilePair
  \/ OnPairCompleted
  \/ CatchError
  \/ OnPairFailed
  \/ PushPair
  \/ FinishRun

Spec == Init /\ [][Next]_vars

\* ------------------------------------------------------------------------
\* validateFilePairs
\* ------------------------------------------------------------------------
NoFilePairs == "No file pairs available for processing"
MissingFile == "Missing internal or provider file"
NoTransactionData == "has no transaction data"

\* the messages validateFilePairs pushes for the pair at position index;
\* pair.internalFile?.data.length is undefined for a missing file
PairErrors(pair, index) ==
  (IF pair.internalFile = Undefined \/ pair.providerFile = Undefined
   THEN <<[pair |-> index, text |-> MissingFile]>>
   ELSE <<>>)
  \o (IF pair.internalFile # Undefined /\ Len(pair.internalFile.data) = 0
      THEN <<[pair |-> index, side |-> "Internal",
              file |-> pair.internalFile.name, text |-> NoTransactionData]>>
      ELSE <<>>)
  \o (IF pair.providerFile # Undefined /\ Len(pair.providerFile.data) = 0
      THEN <<[pair |-> index, side |-> "Provider",
              file |-> pair.providerFile.name, text |-> NoTransactionData]>>
      ELSE <<>>)

\* filePairs.forEach((pair, index) => ...), from position k on
RECURSIVE ErrorsFrom(_, _)
ErrorsFrom(pairs, k) ==
  IF k > Len(pairs) THEN <<>>
  ELSE PairErrors(pairs[k], k) \o ErrorsFrom(pairs, k + 1)

\* the errors array at the return: the early return for an empty list, the
\* messages of the pairs otherwise
ValidationErrors(pairs) ==
  IF Len(pairs) = 0
  THEN <<[text |-> NoFilePairs]>>
  ELSE ErrorsFrom(pairs, 1)

validateFilePairs(pairs) ==
  [valid |-> Len(ValidationErrors(pairs)) = 0,
   errors |-> ValidationErrors(pairs)]

\* ------------------------------------------------------------------------
\* App: the handlers of the component. A handler runs to its next await
\* without interleaving; inFlight holds what a suspended handler captured.
\* The FilePair objects live in filePairs and app.filePairs lists their
\* positions, since the handler mutates the objects the state refers to.
\* Objects nothing refers to any more are dropped.
\* ------------------------------------------------------------------------
UnexpectedError == "An unexpected error occurred during reconciliation"

\* the files a user can upload in single mode
Files == {FileThree, FileOne, FileNoRef}

\* the pairs BatchFileUpload can hand over, and two more the validation
\* distinguishes: a missing provider file and an empty provider file
AppPairInputs ==
  PairInputs \cup { NewFilePair(FileOne, Undefined),
                    NewFilePair(FileThree, FileEmpty) }

\* the positions of a list of objects
Positions(pairs) == [k \in 1..Len(pairs) |-> k]

\* the objects a list of positions refers to
Objects(heap, positions) ==
  [k \in 1..Len(positions) |-> heap[positions[k]]]

appFrame == <<matcherVars, pc, i, processedPairs, caught, promise, returned,
              runs, callbackThrew, events, storeVars, aggregatorVars>>

AppInit ==
  /\ MatcherIdle
  /\ filePairs = <<>>
  /\ BatchIdle
  /\ RestIdle

\* onFileProcessed={setInternalFile}
UploadInternal ==
  /\ app.processingMode = "single"
  /\ \E file \in Files : app' = [app EXCEPT !.internalFile = file]
  /\ UNCHANGED <<filePairs, inFlight>>
  /\ UNCHANGED appFrame

\* onFileProcessed={setProviderFile}
UploadProvider ==
  /\ app.processingMode = "single"
  /\ \E file \in Files : app' = [app EXCEPT !.providerFile = file]
  /\ UNCHANGED <<filePairs, inFlight>>
  /\ UNCHANGED appFrame

\* BatchFileUpload is rendered in batch mode while there is no batch result,
\* its controls disabled while isProcessing
UploadEnabled ==
  /\ app.processingMode = "batch"
  /\ app.batchResult = Null
  /\ ~app.isProcessing

\* createFilePair: onFilePairsChanged={setFilePairs} with [...prev, newPair]
CreateFilePair ==
  /\ UploadEnabled
  /\ Len(app.filePairs) < MaxPairs
  /\ \E newPair \in AppPairInputs :
       /\ filePairs' = Append(Objects(filePairs, app.filePairs), newPair)
       /\ app' = [app EXCEPT !.filePairs = Positions(filePairs')]
  /\ UNCHANGED inFlight
  /\ UNCHANGED appFrame

\* the list without its entry at position k
Without(list, k) ==
  [x \in 1..(Len(list) - 1) |-> IF x < k THEN list[x] ELSE list[x + 1]]

\* removeFilePair: onFilePairsChanged={setFilePairs} with the list filtered
RemoveFilePair ==
  /\ UploadEnabled
  /\ \E k \in 1..Len(app.filePairs) :
       /\ filePairs' = Without(Objects(filePairs, app.filePairs), k)
       /\ app' = [app EXCEPT !.filePairs = Positions(filePairs')]
  /\ UNCHANGED inFlight
  /\ UNCHANGED appFrame

\* handleReconciliation up to its await; the button is rendered in single
\* mode and enabled when canReconcile
HandleReconciliation ==
  /\ app.processingMode = "single"
  /\ app.internalFile # Null /\ app.providerFile # Null
  /\ ~app.isProcessing
  /\ app' = [app EXCEPT !.isProcessing = TRUE, !.error = Null]
  /\ inFlight' = [kind |-> "single", internalFile |-> app.internalFile,
                  providerFile |-> app.providerFile]
  /\ UNCHANGED filePairs
  /\ UNCHANGED appFrame

\* what reconcileTransactions hands to its caller: { result,
\* processingTimeMs }
Wrapper(r, ms) == [result |-> r.result, processingTimeMs |-> ms]

\* handleReconciliation after its await: setReconciliationResult(result)
\* with what reconcileTransactions returned, setError in the catch clause,
\* setIsProcessing(false) in the finally clause
ResumeReconciliation ==
  /\ inFlight.kind = "single"
  /\ \E r \in {reconcileTransactions(inFlight.internalFile.data,
                                     inFlight.providerFile.data)} :
       IF r.threw
       THEN app' = [app EXCEPT
                      !.error = Message(IF r.isError THEN r.message
                                        ELSE UnexpectedError),
                      !.isProcessing = FALSE]
       ELSE \E ms \in MatcherElapsedMs :
              app' = [app EXCEPT !.reconciliationResult = Wrapper(r, ms),
                                 !.isProcessing = FALSE]
  /\ inFlight' = [kind |-> "none"]
  /\ UNCHANGED filePairs
  /\ UNCHANGED appFrame

\* prev.map(p => p.id === pair.id ? pair : p): the pair at position k
\* replaces the entries that are this pair
ReplacePair(prev, k) ==
  [x \in 1..Len(prev) |-> IF prev[x] = k THEN k ELSE prev[x]]

\* onProgress: setBatchProgress({ current, total, currentPair })
BatchProgress(current, pairs) ==
  [current |-> current, total |-> Len(pairs), currentPair |-> pairs[current]]

\* mutant of HandleBatchReconciliation: the result of the validation is
\* ignored
HandleBatchReconciliation_Unvalidated ==
  /\ app.processingMode = "batch"
  /\ app.batchResult = Null
  /\ Len(app.filePairs) > 0
  /\ ~app.isProcessing
  /\ app' = [app EXCEPT !.isProcessing = TRUE, !.error = Null,
                        !.batchProgress = BatchProgress(1, app.filePairs)]
  /\ filePairs' = [filePairs EXCEPT ![app.filePairs[1]].status = "processing"]
  /\ inFlight' = [kind |-> "batch", pairs |-> app.filePairs, done |-> 0]
  /\ UNCHANGED appFrame

\* handleBatchReconciliation up to the first await of
\* processBatchReconciliation; the button is rendered for a non-empty list
\* and enabled when canBatchReconcile
HandleBatchReconciliation ==
  /\ app.processingMode = "batch"
  /\ app.batchResult = Null
  /\ Len(app.filePairs) > 0
  /\ ~app.isProcessing
  /\ IF validateFilePairs(Objects(filePairs, app.filePairs)).valid
     THEN /\ app' = [app EXCEPT
                       !.isProcessing = TRUE, !.error = Null,
                       !.batchProgress = BatchProgress(1, app.filePairs)]
          /\ filePairs' = [filePairs EXCEPT
                             ![app.filePairs[1]].status = "processing"]
          /\ inFlight' = [kind |-> "batch", pairs |-> app.filePairs,
                          done |-> 0]
     ELSE /\ app' = [app EXCEPT !.error =
                       Message(validateFilePairs(
                                 Objects(filePairs, app.filePairs)).errors)]
          /\ UNCHANGED <<filePairs, inFlight>>
  /\ UNCHANGED appFrame

\* the pair after the try block of the loop body, r being what the Matcher
\* returned or threw
PairAfter(pair, r) ==
  IF r.threw
  THEN [pair EXCEPT !.status = "failed", !.error = Message(ErrorText(r)),
                    !.processedAt = Date]
  ELSE [pair EXCEPT !.status = "completed", !.result = r.result,
                    !.processedAt = Date]

\* the objects once the pair at position k went through the loop body
HeapAfter(heap, k) ==
  [heap EXCEPT ![k] = PairAfter(heap[k], ReconcilePairOutcome(heap[k]))]

\* what processBatchReconciliation returns
BatchResult(heap, positions, processingTimeMs) ==
  [filePairs |-> positions,
   aggregateStats |->
     calculateBatchStats(Objects(heap, positions), processingTimeMs),
   processedAt |-> Date,
   processingTimeMs |-> processingTimeMs]

\* processBatchReconciliation from one await to the next, with the callbacks
\* of handleBatchReconciliation; after the last pair the promise resolves
\* and handleBatchReconciliation goes on: setBatchResult(result), then the
\* finally clause
ResumeBatch ==
  /\ inFlight.kind = "batch"
  /\ IF inFlight.done + 1 < Len(inFlight.pairs)
     THEN /\ filePairs' =
               [HeapAfter(filePairs, inFlight.pairs[inFlight.done + 1])
                  EXCEPT ![inFlight.pairs[inFlight.done + 2]].status =
                            "processing"]
          /\ app' = [app EXCEPT
                       !.filePairs =
                          ReplacePair(@, inFlight.pairs[inFlight.done + 1]),
                       !.batchProgress =
                          BatchProgress(inFlight.done + 2, inFlight.pairs)]
          /\ inFlight' = [inFlight EXCEPT !.done = @ + 1]
     ELSE /\ filePairs' =
               HeapAfter(filePairs, inFlight.pairs[inFlight.done + 1])
          /\ \E processingTimeMs \in ElapsedMs :
               app' = [app EXCEPT
                         !.filePairs =
                            ReplacePair(@, inFlight.pairs[inFlight.done + 1]),
                         !.batchResult =
                            BatchResult(filePairs', inFlight.pairs,
                                        processingTimeMs),
                         !.isProcessing = FALSE,
                         !.batchProgress = Null]
          /\ inFlight' = [kind |-> "none"]
  /\ UNCHANGED appFrame

\* resetAll applied to the state a
ResetAll(a) ==
  [a EXCEPT !.internalFile = Null, !.providerFile = Null,
            !.reconciliationResult = Null, !.error = Null,
            !.filePairs = <<>>, !.batchErrors = <<>>,
            !.batchResult = Null, !.batchProgress = Null]

\* the objects left once the state let go of its pairs and its batch
\* result: those a suspended batch run holds
StillReferenced(heap) == IF inFlight.kind = "batch" THEN heap ELSE <<>>

\* the Reset All button, rendered when a file is loaded
ResetAllClicked ==
  /\ app.internalFile # Null \/ app.providerFile # Null
  /\ app' = ResetAll(app)
  /\ filePairs' = StillReferenced(filePairs)
  /\ UNCHANGED inFlight
  /\ UNCHANGED appFrame

\* switchMode(mode): on the mode selection, on "Switch to Batch Processing"
\* in single mode, on "Switch to Single File Mode" in batch mode while
\* there is no batch result
SwitchMode ==
  /\ \E mode \in {"single", "batch"} :
       /\ \/ /\ app.internalFile = Null /\ app.providerFile = Null
             /\ Len(app.filePairs) = 0 /\ app.batchResult = Null
          \/ app.processingMode = "single" /\ mode = "batch"
          \/ /\ app.processingMode = "batch" /\ app.batchResult = Null
             /\ mode = "single"
       /\ app' = [ResetAll(app) EXCEPT !.processingMode = mode]
  /\ filePairs' = StillReferenced(filePairs)
  /\ UNCHANGED inFlight
  /\ UNCHANGED appFrame

AppNext ==
  \/ UploadInternal
  \/ UploadProvider
  \/ CreateFilePair
  \/ RemoveFilePair
  \/ HandleReconciliation
  \/ ResumeReconciliation
  \/ HandleBatchReconciliation
  \/ ResumeBatch
  \/ ResetAllClicked
  \/ SwitchMode

SpecApp == AppInit /\ [][AppNext]_vars

\* ------------------------------------------------------------------------
\* StorageService: the history kept under STORAGE_KEYS.HISTORICAL_RECORDS.
\* A stored string is represented by the value JSON.parse makes of it.
\* ------------------------------------------------------------------------
\* what toISOString gives for a Date
IsoString == Str(<<"2", "0", "2", "5">>)

\* JSON.parse(JSON.stringify(v)) of a value that is no object: NaN becomes
\* null, a Date becomes its ISO string, a property holding undefined is
\* left out (an absent property reads as undefined)
JsonValue(v) ==
  IF v = NaN THEN Null ELSE IF v = Date THEN IsoString ELSE v

\* the same of a FieldMismatch
JsonMismatch(m) ==
  [m EXCEPT !.internalValue = JsonValue(@), !.providerValue = JsonValue(@)]

\* the same of a ReconciliationResult; its transactions are the parsed
\* records, whose values are strings and finite numbers, and its stats are
\* counts and a guarded rate, finite numbers too
JsonResult(r) ==
  [r EXCEPT
     !.matched = [k \in DOMAIN @ |->
                    [@[k] EXCEPT !.mismatches =
                       [x \in DOMAIN @ |-> JsonMismatch(@[x])]]]]

\* the same of a FilePair
JsonPair(pair) ==
  [pair EXCEPT !.result = IF @ = Undefined THEN @ ELSE JsonResult(@),
               !.processedAt = JsonValue(@)]

\* the same of a BatchReconciliationResult
JsonBatch(b) ==
  [b EXCEPT !.filePairs = [k \in DOMAIN @ |-> JsonPair(@[k])],
            !.processedAt = JsonValue(@)]

deepClone(obj) ==
  IF "aggregateStats" \in DOMAIN obj THEN JsonBatch(obj) ELSE JsonResult(obj)

\* JSON.stringify(records)
Stringify(records) ==
  [k \in DOMAIN records |->
     [records[k] EXCEPT !.timestamp = JsonValue(@), !.result = deepClone(@)]]

\* what localStorage.getItem gives: null, or the string setItem stored
NoItem == [present |-> FALSE]
Item(records) == [present |-> TRUE, records |-> records]

\* records.map(record => ({ ...record, timestamp: new Date(...) }))
Revived(records) ==
  [k \in DOMAIN records |-> [records[k] EXCEPT !.timestamp = Date]]

\* getHistoricalRecords: [] when nothing is stored, else the parsed records
\* with their timestamps made Dates
getHistoricalRecords(item) ==
  IF item = NoItem THEN <<>> ELSE Revived(item.records)

\* mutant of Capped: the records beyond the cap are cut off at the end
Capped_KeepsOldest(records) ==
  IF Len(records) > MAX_HISTORICAL_RECORDS
  THEN SubSeq(records, 1, MAX_HISTORICAL_RECORDS)
  ELSE records

\* records.splice(0, records.length - MAX_HISTORICAL_RECORDS) when the list
\* is longer than the cap; slice(-MAX_HISTORICAL_RECORDS) in the import
Capped(records) ==
  IF Len(records) > MAX_HISTORICAL_RECORDS
  THEN SubSeq(records, Len(records) - MAX_HISTORICAL_RECORDS + 1,
              Len(records))
  ELSE records

isValidRecord(record) ==
  /\ record.id # Undefined
  /\ record.timestamp = Date
  /\ record.type \in {"single", "batch"}
  /\ record.result \notin {Undefined, Null}
  /\ record.metadata \notin {Undefined, Null}
  /\ record.metadata.processingTimeMs.t = "num"

\* a batch of one pair as processBatchReconciliation returns it, the pairs
\* being the objects themselves
BatchOf(pair, processingTimeMs) ==
  [filePairs |-> HeapAfter(<<pair>>, 1),
   aggregateStats |->
     calculateBatchStats(HeapAfter(<<pair>>, 1), processingTimeMs),
   processedAt |-> Date,
   processingTimeMs |-> processingTimeMs]

\* the results handed to saveReconciliationResult
SingleResults ==
  { reconcileTransactions(FileThree.data, FileOne.data).result,
    reconcileTransactions(FileEmpty.data, FileOne.data).result }

BatchResults ==
  { BatchOf(NewFilePair(FileThree, FileOne), 1500),
    BatchOf(NewFilePair(FileNoRef, FileOne), 0) }

\* a record as the history holds it
StoredRecord(id, type) ==
  [id |-> id, timestamp |-> IsoString, type |-> type,
   result |-> JsonResult(reconcileTransactions(FileOne.data,
                                               FileOne.data).result),
   metadata |-> [processingTimeMs |-> Num(2)]]

\* a history of n records, the oldest first
History(n) == [k \in 1..n |-> StoredRecord(Num(k), "single")]

\* what JSON.parse makes of the string handed to importHistoricalData: it
\* throws, or gives backups without records, of more records than the cap,
\* or with a record of an unknown type and one without id
Backups ==
  { [parsed |-> FALSE],
    [parsed |-> TRUE, preferences |-> Null],
    [parsed |-> TRUE, records |-> History(MAX_HISTORICAL_RECORDS + 1)],
    [parsed |-> TRUE,
     records |-> <<StoredRecord(Num(1), "single"),
                   StoredRecord(Num(2), "other"),
                   StoredRecord(Undefined, "batch"),
                   StoredRecord(Num(4), "batch")>>] }

storeFrame == <<matcherVars, batchVars, appVars, aggregatorVars>>

\* the history is empty, one short of the cap, or at the cap
StoreInit ==
  /\ MatcherIdle
  /\ filePairs = <<>>
  /\ BatchIdle
  /\ AppIdle
  /\ AggregatorIdle
  /\ stored \in {NoItem, Item(History(MAX_HISTORICAL_RECORDS - 1)),
                 Item(History(MAX_HISTORICAL_RECORDS))}
  /\ lastSaved = Null
  /\ nextId = FirstNewId

\* saveReconciliationResult; localStorage.setItem throws when the quota is
\* exceeded, and the catch clause leaves the history as it was
SaveReconciliationResult ==
  /\ nextId < FirstNewId + MaxSaves
  /\ \E type \in {"single", "batch"}, stores \in BOOLEAN :
       \E result \in IF type = "single" THEN SingleResults
                     ELSE BatchResults :
         IF stores
         THEN /\ stored' = Item(Stringify(Capped(Append(
                   getHistoricalRecords(stored),
                   [id |-> Num(nextId), timestamp |-> Date, type |-> type,
                    result |-> deepClone(result),
                    metadata |-> [processingTimeMs |-> Num(2)]]))))
              /\ lastSaved' = result
         ELSE /\ lastSaved' = Null
              /\ UNCHANGED stored
  /\ nextId' = nextId + 1
  /\ UNCHANGED storeFrame

\* importHistoricalData: the valid records of the backup, capped, replace
\* the history
ImportHistoricalData ==
  /\ \E data \in Backups :
       IF data.parsed /\ "records" \in DOMAIN data
       THEN stored' = Item(Stringify(Capped(SelectSeq(
                        Revived(data.records), isValidRecord))))
       ELSE UNCHANGED stored
  /\ lastSaved' = Null
  /\ UNCHANGED nextId
  /\ UNCHANGED storeFrame

\* clearHistoricalRecords: localStorage.removeItem
ClearHistoricalRecords ==
  /\ stored' = NoItem
  /\ lastSaved' = Null
  /\ UNCHANGED nextId
  /\ UNCHANGED storeFrame

StoreNext ==
  \/ SaveReconciliationResult
  \/ ImportHistoricalData
  \/ ClearHistoricalRecords

SpecStore == StoreInit /\ [][StoreNext]_vars

\* ------------------------------------------------------------------------
\* Aggregator: utils/analytics.ts and generateBatchSummaryReport. A result
\* handed to it holds the transaction objects themselves.
\* ------------------------------------------------------------------------
\* a ReconciliationResult of the Matcher with the records in place of their
\* positions
WithObjects(r, internal, provider) ==
  [r EXCEPT
     !.matched = [k \in DOMAIN @ |->
                    [@[k] EXCEPT !.internal = internal[@],
                                 !.provider = provider[@]]],
     !.internalOnly = [k \in DOMAIN @ |-> internal[@[k]]],
     !.providerOnly = [k \in DOMAIN @ |-> provider[@[k]]]]

\* the same for the result of a pair
PairWithObjects(pair) ==
  IF pair.result = Undefined THEN pair
  ELSE [pair EXCEPT !.result = WithObjects(@, pair.internalFile.data,
                                           pair.providerFile.data)]

\* twenty records TXN001 .. TXN020 with amounts from 20 to 8000 and three
\* statuses, one of them absent
Twenty ==
  [k \in 1..20 |->
     Tx(Txn(Digits[(k \div 10) + 1], Digits[(k % 10) + 1]),
        Num(k * k * 20000),
        IF k % 4 = 0 THEN Undefined
        ELSE IF k % 3 = 0 THEN StatusPending ELSE StatusCompleted,
        Undefined)]

\* the first n of them as the provider reports them: the second with
\* another amount, the third and the fifth with another status
TwentyReported(n) ==
  [k \in 1..n |->
     IF k = 2 THEN [Twenty[k] EXCEPT !.amount = Num(99000)]
     ELSE IF k \in {3, 5} THEN [Twenty[k] EXCEPT !.status = StatusFailed]
     ELSE Twenty[k]]

\* what the Matcher returns for the records internal against the first n
\* of them as reported: record k matches record k and the others are
\* internal only
MatchedFirst(internal, n) ==
  ReconciliationResult(
    internal, TwentyReported(n),
    [k \in 1..n |-> TransactionMatch(k, k, internal, TwentyReported(n))],
    [k \in 1..(Len(internal) - n) |-> n + k], <<>>)

\* the ReconciliationResult of the twenty records against the first n
SingleOf(n) ==
  WithObjects(MatchedFirst(Twenty, n), Twenty, TwentyReported(n))

\* the BatchReconciliationResult of one pair
BatchWithObjects(pair, processingTimeMs) ==
  [BatchOf(pair, processingTimeMs) EXCEPT
     !.filePairs = [k \in DOMAIN @ |-> PairWithObjects(@[k])]]

\* the BatchReconciliationResult of the pair of the twenty records and the
\* first nineteen of them
BatchOfTwenty(processingTimeMs) ==
  [filePairs |->
     <<[NewFilePair(ParsedFile("twenty.csv", Twenty),
                    ParsedFile("nineteen.csv", TwentyReported(19)))
          EXCEPT !.status = "completed", !.result = SingleOf(19),
                 !.processedAt = Date]>>,
   aggregateStats |->
     calculateBatchStats(
       <<[NewFilePair(ParsedFile("twenty.csv", Twenty),
                      ParsedFile("nineteen.csv", TwentyReported(19)))
            EXCEPT !.status = "completed", !.result = SingleOf(19),
                   !.processedAt = Date]>>,
       processingTimeMs),
   processedAt |-> Date,
   processingTimeMs |-> processingTimeMs]

\* the results analysed: match rates of 80, 85, 90, 95 and 100 percent and
\* of a third; batches with a rate of a third, of 95 percent, and of a
\* failed pair
CurrentResults ==
  {SingleOf(n) : n \in 16..20}
  \cup { WithObjects(reconcileTransactions(FileThree.data,
                                           FileOne.data).result,
                     FileThree.data, FileOne.data),
         BatchWithObjects(NewFilePair(FileThree, FileOne), 1500),
         BatchOfTwenty(1500),
         BatchWithObjects(NewFilePair(FileNoRef, FileOne), 0) }

\* a Date of the given day
DateOn(day) == [t |-> "date", day |-> day]

\* a HistoricalRecord as getHistoricalRecords returns it
HistoricalRecord(day, type, result, processingTimeMs) ==
  [id |-> Num(day), timestamp |-> DateOn(day), type |-> type,
   result |-> result,
   metadata |-> [processingTimeMs |-> Num(processingTimeMs)]]

RecordInputs ==
  { HistoricalRecord(3, "single", SingleOf(20), 4),
    HistoricalRecord(1, "single", SingleOf(17), 2),
    HistoricalRecord(2, "batch",
                     BatchWithObjects(NewFilePair(FileThree, FileOne), 1500),
                     1500) }

\* the histories of at most MaxHistory records, in any order
RECURSIVE HistoriesOfLength(_)
HistoriesOfLength(n) ==
  IF n = 0 THEN {<<>>}
  ELSE {Append(h, record) : h \in HistoriesOfLength(n - 1),
                            record \in RecordInputs}

Histories == UNION {HistoriesOfLength(n) : n \in 0..MaxHistory}

\* array.sort(compare) with compare the difference of two numbers: stable,
\* ascending in key; the entries are [key, value]
InsertByKey(sorted, e) ==
  SelectSeq(sorted, LAMBDA x : x.key <= e.key) \o <<e>>
    \o SelectSeq(sorted, LAMBDA x : x.key > e.key)

RECURSIVE SortByKey(_)
SortByKey(list) ==
  IF list = <<>> THEN <<>>
  ELSE InsertByKey(SortByKey(SubSeq(list, 1, Len(list) - 1)), list[Len(list)])

\* 'stats' in result ? result.stats : result.aggregateStats
StatsOf(result) ==
  IF "stats" \in DOMAIN result THEN result.stats ELSE result.aggregateStats

\* 'matchRate' in stats ? stats.matchRate : stats.overallMatchRate
MatchRateOf(result) ==
  IF "matchRate" \in DOMAIN StatsOf(result) THEN StatsOf(result).matchRate
  ELSE StatsOf(result).overallMatchRate

TotalTransactionsOf(result) ==
  IF "totalInternal" \in DOMAIN StatsOf(result)
  THEN StatsOf(result).totalInternal + StatsOf(result).totalProvider
  ELSE StatsOf(result).totalTransactionsInternal
         + StatsOf(result).totalTransactionsProvider

\* rate >= percent, rate being the fraction num / den
AtLeast(rate, percent) == rate.num >= percent * rate.den

\* a - b of two fractions
Minus(a, b) == [num |-> a.num * b.den - b.num * a.den, den |-> a.den * b.den]

Insight(id, type, title, impact) ==
  [id |-> id, type |-> type, title |-> title, impact |-> impact]

\* mutant of MatchRateInsight: a rate of exactly 95 is not excellent
MatchRateInsight_Above95(matchRate) ==
  IF ~AtLeast(Minus([num |-> 95, den |-> 1], matchRate), 0)
  THEN Insight("high-match-rate", "success", "Excellent Match Rate", "low")
  ELSE IF AtLeast(matchRate, 85)
  THEN Insight("good-match-rate", "info", "Good Match Rate", "medium")
  ELSE Insight("low-match-rate", "warning", "Low Match Rate Alert", "high")

\* the match rate insight of generateInsights
MatchRateInsight(matchRate) ==
  IF AtLeast(matchRate, 95)
  THEN Insight("high-match-rate", "success", "Excellent Match Rate", "low")
  ELSE IF AtLeast(matchRate, 85)
  THEN Insight("good-match-rate", "info", "Good Match Rate", "medium")
  ELSE Insight("low-match-rate", "warning", "Low Match Rate Alert", "high")

\* the volume insight of generateInsights
VolumeInsights(totalTransactions) ==
  IF totalTransactions > 10000
  THEN <<Insight("high-volume", "info", "High Volume Processing", "medium")>>
  ELSE <<>>

\* the historical comparison of generateInsights, change being matchRate -
\* prevMatchRate
ChangeInsights(change) ==
  IF AtLeast([num |-> Abs(change.num), den |-> change.den], 5)
  THEN <<Insight("match-rate-trend",
                 IF change.num > 0 THEN "success" ELSE "warning",
                 IF change.num > 0 THEN "Match Rate Improvement"
                 ELSE "Match Rate Decline",
                 IF AtLeast([num |-> Abs(change.num), den |-> change.den], 10)
                 THEN "high" ELSE "medium")>>
  ELSE <<>>

\* the batch failure insight of generateInsights; failureRate > 20
FailureInsights(result) ==
  IF /\ "aggregateStats" \in DOMAIN result
     /\ result.aggregateStats.failedPairs > 0
  THEN <<Insight("batch-failures", "error", "Batch Processing Failures",
                 IF result.aggregateStats.failedPairs * 100
                      > 20 * result.aggregateStats.totalFilePairs
                 THEN "high" ELSE "medium")>>
  ELSE <<>>

generateInsights(result, records) ==
  <<MatchRateInsight(MatchRateOf(result))>>
  \o VolumeInsights(TotalTransactionsOf(result))
  \o (IF Len(records) >= 2
      THEN ChangeInsights(Minus(
             MatchRateOf(result),
             MatchRateOf(
               records[Len(records) - 1].result)))
      ELSE <<>>)
  \o FailureInsights(result)

\* the trend of the summary card of ReconciliationSummary
CardTrend(stats) ==
  IF AtLeast(stats.matchRate, 95) THEN "excellent"
  ELSE IF AtLeast(stats.matchRate, 85) THEN "good" ELSE "needs-attention"

\* the entry generateTrendData makes of a record; date is the day of the
\* timestamp
TrendPoint(record) ==
  [date |-> record.timestamp.day,
   matchRate |-> MatchRateOf(record.result),
   totalTransactions |-> TotalTransactionsOf(record.result),
   totalMatched |->
     IF "matched" \in DOMAIN StatsOf(record.result)
     THEN StatsOf(record.result).matched
     ELSE StatsOf(record.result).totalMatched,
   totalDiscrepancies |->
     IF "internalOnly" \in DOMAIN StatsOf(record.result)
     THEN StatsOf(record.result).internalOnly
            + StatsOf(record.result).providerOnly
     ELSE StatsOf(record.result).totalInternalOnly
            + StatsOf(record.result).totalProviderOnly]

\* records.map(...).sort(by date): the mapped array is sorted
generateTrendData(records) ==
  MapValues(SortByKey(
    [k \in DOMAIN records |->
       [key |-> records[k].timestamp.day,
        value |-> TrendPoint(records[k])]]))

\* the decimal digits of a natural number
RECURSIVE DigitsOfNat(_)
DigitsOfNat(n) ==
  IF n < 10 THEN <<Digits[n + 1]>>
  ELSE Append(DigitsOfNat(n \div 10), Digits[(n % 10) + 1])

\* the digits after the decimal point of m thousandths, m < 1000, without
\* trailing zeros
FractionDigits(m) ==
  IF m = 0 THEN <<>>
  ELSE IF m % 100 = 0 THEN <<".", Digits[(m \div 100) + 1]>>
  ELSE IF m % 10 = 0
  THEN <<".", Digits[(m \div 100) + 1], Digits[((m \div 10) % 10) + 1]>>
  ELSE <<".", Digits[(m \div 100) + 1], Digits[((m \div 10) % 10) + 1],
         Digits[(m % 10) + 1]>>

\* `${v}`: the text a template literal makes of a value
TextOf(v) ==
  IF v.t = "str" THEN v.s
  ELSE IF v.t = "num"
  THEN (IF v.n < 0 THEN <<"-">> ELSE <<>>)
         \o DigitsOfNat(Abs(v.n) \div 1000) \o FractionDigits(Abs(v.n) % 1000)
  ELSE IF v = NaN THEN <<"N", "a", "N">>
  ELSE IF v = Null THEN <<"n", "u", "l", "l">>
  ELSE <<"u", "n", "d", "e", "f", "i", "n", "e", "d">>

\* match.mismatches of all matches, in order
RECURSIVE AllMismatches(_)
AllMismatches(matches) ==
  IF matches = <<>> THEN <<>>
  ELSE Head(matches).mismatches \o AllMismatches(Tail(matches))

\* set.add(x) on a Set kept in insertion order
SetAdd(set, x) ==
  IF \E k \in 1..Len(set) : set[k] = x THEN set ELSE Append(set, x)

\* the fieldMismatches map after the mismatches from position k on
RECURSIVE FieldCounts(_, _, _)
FieldCounts(mismatches, k, m) ==
  IF k > Len(mismatches) THEN m
  ELSE FieldCounts(mismatches, k + 1,
         MapSet(m, mismatches[k].field,
           [count |-> (IF MapHas(m, mismatches[k].field)
                       THEN MapGet(m, mismatches[k].field).count ELSE 0) + 1,
            examples |->
              SetAdd(IF MapHas(m, mismatches[k].field)
                     THEN MapGet(m, mismatches[k].field).examples ELSE <<>>,
                     TextOf(mismatches[k].internalValue)
                       \o <<" ", "v", "s", " ">>
                       \o TextOf(mismatches[k].providerValue))]))

RECURSIVE SumSeq(_)
SumSeq(numbers) ==
  IF numbers = <<>> THEN 0 ELSE Head(numbers) + SumSeq(Tail(numbers))

\* the patterns of a fieldMismatches map, sorted by falling frequency
PatternsOf(m) ==
  MapValues(SortByKey(
    [k \in DOMAIN m |->
       [key |-> 0 - m[k].value.count,
        value |->
          [field |-> m[k].key,
           frequency |-> m[k].value.count,
           percentage |->
             Rate(m[k].value.count,
                  SumSeq([x \in DOMAIN m |-> m[x].value.count])),
           examples |->
             SubSeq(m[k].value.examples, 1,
                    IF Len(m[k].value.examples) < 3
                    THEN Len(m[k].value.examples) ELSE 3)]]]))

analyzeMismatchPatterns(matches) ==
  PatternsOf(FieldCounts(AllMismatches(matches), 1, <<>>))

\* a + b of two fractions
Plus(a, b) == [num |-> a.num * b.den + b.num * a.den, den |-> a.den * b.den]

\* the sum of the match rates of the records
RECURSIVE SumOfRates(_)
SumOfRates(records) ==
  IF records = <<>> THEN [num |-> 0, den |-> 1]
  ELSE Plus(MatchRateOf(Head(records).result), SumOfRates(Tail(records)))

\* the sum divided by n
Mean(sum, n) == [num |-> sum.num, den |-> sum.den * n]

\* detectAnomalies with the default threshold of 10; deviation is
\* currentMatchRate - avgMatchRate
Anomalies(deviation) ==
  IF ~AtLeast([num |-> 0 - Abs(deviation.num), den |-> deviation.den], 0 - 10)
  THEN <<Insight("match-rate-anomaly",
                 IF deviation.num < 0 THEN "error" ELSE "info",
                 "Unusual Match Rate Detected", "high")>>
  ELSE <<>>

detectAnomalies(result, records) ==
  IF Len(records) < 3 THEN <<>>
  ELSE Anomalies(Minus(MatchRateOf(result),
                       Mean(SumOfRates(records),
                            Len(records))))

\* Math.abs(transaction.amount) in thousandths: the parsers leave an amount
\* that is no number as the text read, which is NaN as a number unless it
\* is empty
AbsAmount(transaction) ==
  IF transaction.amount.t = "num" THEN Num(Abs(transaction.amount.n))
  ELSE IF transaction.amount = Str(<<>>) THEN Num(0)
  ELSE NaN

\* the lower ends of the ranges of calculateAmountDistribution; the last
\* range ends at Infinity
RangeMins == <<0, 10000, 50000, 100000, 500000, 1000000, 5000000>>

\* ranges.findIndex(range => amount >= range.min && amount < range.max);
\* 0 stands for -1
RangeIndex(amount) ==
  IF amount = NaN THEN 0
  ELSE Cardinality({k \in DOMAIN RangeMins : RangeMins[k] <= amount.n})

calculateAmountDistribution(transactions) ==
  SelectSeq(
    [r \in DOMAIN RangeMins |->
       [range |-> r,
        count |-> Cardinality({k \in DOMAIN transactions :
                     RangeIndex(AbsAmount(transactions[k])) = r}),
        percentage |->
          Rate(Cardinality({k \in DOMAIN transactions :
                  RangeIndex(AbsAmount(transactions[k])) = r}),
               Len(transactions))]],
    LAMBDA item : item.count > 0)

\* transaction.status || 'unknown'
StatusOf(transaction) ==
  IF transaction.status.t = "str" /\ transaction.status.s # <<>>
  THEN transaction.status.s ELSE <<"u", "n", "k", "n", "o", "w", "n">>

\* a + b of two amounts, NaN if one of them is
AddAmount(a, b) == IF a = NaN \/ b = NaN THEN NaN ELSE Num(a.n + b.n)

\* the statusMap after the transactions from position k on
RECURSIVE StatusCounts(_, _, _)
StatusCounts(transactions, k, m) ==
  IF k > Len(transactions) THEN m
  ELSE StatusCounts(transactions, k + 1,
         MapSet(m, StatusOf(transactions[k]),
           IF MapHas(m, StatusOf(transactions[k]))
           THEN [count |-> MapGet(m, StatusOf(transactions[k])).count + 1,
                 totalAmount |->
                   AddAmount(MapGet(m, StatusOf(transactions[k])).totalAmount,
                             AbsAmount(transactions[k]))]
           ELSE [count |-> 1,
                 totalAmount |-> AddAmount(Num(0),
                                           AbsAmount(transactions[k]))]))

\* the breakdown of a statusMap, sorted by falling count
BreakdownOf(m, total) ==
  MapValues(SortByKey(
    [k \in DOMAIN m |->
       [key |-> 0 - m[k].value.count,
        value |->
          [status |-> m[k].key,
           count |-> m[k].value.count,
           percentage |-> Rate(m[k].value.count, total),
           averageAmount |->
             IF m[k].value.totalAmount = NaN THEN NaN
             ELSE [num |-> m[k].value.totalAmount.n,
                   den |-> m[k].value.count]]]]))

calculateStatusBreakdown(transactions) ==
  BreakdownOf(StatusCounts(transactions, 1, <<>>), Len(transactions))

calculatePerformanceMetrics(records) ==
  IF Len(records) = 0
  THEN [averageProcessingTime |-> [num |-> 0, den |-> 1],
        averageMatchRate |-> [num |-> 0, den |-> 1],
        totalReconciliations |-> 0,
        totalTransactionsProcessed |-> 0,
        lastUpdated |-> Date]
  ELSE [averageProcessingTime |->
          [num |-> SumSeq([k \in DOMAIN records |->
                     records[k].metadata.processingTimeMs.n]),
           den |-> Len(records)],
        averageMatchRate |->
          Mean(SumOfRates(records), Len(records)),
        totalReconciliations |-> Len(records),
        totalTransactionsProcessed |->
          SumSeq([k \in DOMAIN records |->
                    TotalTransactionsOf(records[k].result)]),
        lastUpdated |-> Date]

\* the transactions of a ReconciliationResult: the internal side of the
\* matches, then internalOnly, then providerOnly
TransactionsOf(result) ==
  [k \in DOMAIN result.matched |-> result.matched[k].internal]
  \o result.internalOnly \o result.providerOnly

\* allTransactions and allMatches after the forEach over the pairs of a
\* batch result
RECURSIVE AllOfPairs(_)
AllOfPairs(pairs) ==
  IF pairs = <<>> THEN [transactions |-> <<>>, matches |-> <<>>]
  ELSE IF Head(pairs).result = Undefined THEN AllOfPairs(Tail(pairs))
  ELSE [transactions |-> TransactionsOf(Head(pairs).result)
                           \o AllOfPairs(Tail(pairs)).transactions,
        matches |-> Head(pairs).result.matched
                      \o AllOfPairs(Tail(pairs)).matches]

\* allTransactions and allMatches of generateAnalyticsData; for a single
\* result allMatches is result.matched itself
AllOf(result) ==
  IF "stats" \in DOMAIN result
  THEN [transactions |-> TransactionsOf(result),
        matches |-> result.matched]
  ELSE AllOfPairs(result.filePairs)

generateAnalyticsData(result, records) ==
  [historicalTrends |-> generateTrendData(records),
   insights |-> generateInsights(result, records)
                  \o detectAnomalies(result, records),
   amountDistribution |->
     calculateAmountDistribution(AllOf(result).transactions),
   statusBreakdown |->
     calculateStatusBreakdown(AllOf(result).transactions),
   mismatchPatterns |-> analyzeMismatchPatterns(AllOf(result).matches),
   performanceMetrics |-> calculatePerformanceMetrics(records)]

\* the lines generateBatchSummaryReport pushes for a pair, as the values
\* they are formatted from; reading the name of a missing file throws
PairReport(pair) ==
  [internalFile |-> pair.internalFile.name,
   providerFile |-> pair.providerFile.name,
   status |->
     IF pair.status = "completed" /\ pair.result # Undefined
     THEN [completed |-> TRUE, matched |-> pair.result.stats.matched,
           totalInternal |-> pair.result.stats.totalInternal,
           matchRate |-> pair.result.stats.matchRate]
     ELSE IF pair.status = "failed" THEN [failed |-> TRUE, error |-> pair.error]
     ELSE [neither |-> TRUE]]

generateBatchSummaryReport(result) ==
  IF \E k \in DOMAIN result.filePairs :
        \/ result.filePairs[k].internalFile = Undefined
        \/ result.filePairs[k].providerFile = Undefined
  THEN Thrown(TRUE, TypeErrorMessage)
  ELSE [threw |-> FALSE,
        processedAt |-> result.processedAt,
        processingTimeMs |-> result.processingTimeMs,
        aggregateStats |-> result.aggregateStats,
        pairs |-> [k \in DOMAIN result.filePairs |->
                     PairReport(result.filePairs[k])]]

aggregatorFrame == <<matcherVars, batchVars, appVars, storeVars>>

\* the Aggregator is handed a result and a history
AggregatorInit ==
  /\ MatcherIdle
  /\ filePairs = <<>>
  /\ BatchIdle
  /\ AppIdle
  /\ StoreIdle
  /\ currentResult \in CurrentResults
  /\ historicalRecords \in Histories
  /\ analytics = Null

\* mutant of GenerateTrendData: the records are sorted in place before they
\* are mapped
GenerateTrendData_SortsRecords ==
  /\ analytics' = [of |-> "generateTrendData",
                   value |-> generateTrendData(historicalRecords)]
  /\ historicalRecords' =
       MapValues(SortByKey(
         [k \in DOMAIN historicalRecords |->
            [key |-> historicalRecords[k].timestamp.day,
             value |-> historicalRecords[k]]]))
  /\ UNCHANGED currentResult
  /\ UNCHANGED aggregatorFrame

GenerateTrendData ==
  /\ analytics' = [of |-> "generateTrendData",
                   value |-> generateTrendData(historicalRecords)]
  /\ UNCHANGED <<currentResult, historicalRecords>>
  /\ UNCHANGED aggregatorFrame

GenerateInsights ==
  /\ analytics' = [of |-> "generateInsights",
                   value |-> generateInsights(currentResult,
                                              historicalRecords)]
  /\ UNCHANGED <<currentResult, historicalRecords>>
  /\ UNCHANGED aggregatorFrame

\* analyzeMismatchPatterns on the matches of a single result
AnalyzeMismatchPatterns ==
  /\ "stats" \in DOMAIN currentResult
  /\ analytics' = [of |-> "analyzeMismatchPatterns",
                   value |-> analyzeMismatchPatterns(currentResult.matched)]
  /\ UNCHANGED <<currentResult, historicalRecords>>
  /\ UNCHANGED aggregatorFrame

GenerateAnalyticsData ==
  /\ analytics' = [of |-> "generateAnalyticsData",
                   value |-> generateAnalyticsData(currentResult,
                                                   historicalRecords)]
  /\ UNCHANGED <<currentResult, historicalRecords>>
  /\ UNCHANGED aggregatorFrame

GenerateBatchSummaryReport ==
  /\ "aggregateStats" \in DOMAIN currentResult
  /\ analytics' = [of |-> "generateBatchSummaryReport",
                   value |-> generateBatchSummaryReport(currentResult)]
  /\ UNCHANGED <<currentResult, historicalRecords>>
  /\ UNCHANGED aggregatorFrame

AggregatorNext ==
  \/ GenerateTrendData
  \/ GenerateInsights
  \/ AnalyzeMismatchPatterns
  \/ GenerateAnalyticsData
  \/ GenerateBatchSummaryReport

SpecAggregator == AggregatorInit /\ [][AggregatorNext]_vars

\* ------------------------------------------------------------------------
\* Properties of the Matcher
\* ------------------------------------------------------------------------
Returned == outcome.threw = FALSE /\ outcome # NoOutcome

\* the trimmed reference of the k-th record of a collection
TrimmedRef(data, k) == Trim(data[k].transaction_reference.s)

\* no later record of the collection has the trimmed reference of record k
IsLastOfRef(data, k) ==
  \A l \in (k + 1)..Len(data) : TrimmedRef(data, l) # TrimmedRef(data, k)

HasDuplicateRef(data) == \E k \in 1..Len(data) : ~IsLastOfRef(data, k)

InMatchedInternal(n) ==
  {k \in 1..Len(outcome.result.matched) : outcome.result.matched[k].internal = n}

InInternalOnly(n) ==
  {k \in 1..Len(outcome.result.internalOnly) : outcome.result.internalOnly[k] = n}

InMatchedProvider(j) ==
  {k \in 1..Len(outcome.result.matched) : outcome.result.matched[k].provider = j}

InProviderOnly(j) ==
  {k \in 1..Len(outcome.result.providerOnly) : outcome.result.providerOnly[k] = j}

\* how often internal record n / provider record j occurs in the result
InternalOccurrences(n) ==
  Cardinality(InMatchedInternal(n)) + Cardinality(InInternalOnly(n))

ProviderOccurrences(j) ==
  Cardinality(InMatchedProvider(j)) + Cardinality(InProviderOnly(j))

\* C6, as claimed: every internal input record occurs exactly once in
\* matched[].internal and internalOnly together, and every provider input
\* record exactly once in matched[].provider and providerOnly together, also
\* when a collection repeats a reference.
C6_EveryRecordExactlyOnce ==
  Returned =>
    /\ \A n \in 1..Len(internalData) : InternalOccurrences(n) = 1
    /\ \A j \in 1..Len(providerData) : ProviderOccurrences(j) = 1

\* C6, amended: a record occurs exactly once in the result when it is the
\* last record of its collection with its trimmed reference, and not at all
\* when a later record of the collection has the same trimmed reference; no
\* record occurs twice.
C6_RetainedRecordsExactlyOnce ==
  Returned =>
    /\ \A n \in 1..Len(internalData) :
         InternalOccurrences(n) = IF IsLastOfRef(internalData, n) THEN 1 ELSE 0
    /\ \A j \in 1..Len(providerData) :
         ProviderOccurrences(j) = IF IsLastOfRef(providerData, j) THEN 1 ELSE 0

\* a result with a match, a provider-only record and a dropped earlier
\* record of a repeated internal reference
C6_Witness ==
  /\ Returned
  /\ HasDuplicateRef(internalData)
  /\ Len(outcome.result.matched) > 0
  /\ Len(outcome.result.providerOnly) > 0

InternalKeys == {TrimmedRef(internalData, k) : k \in 1..Len(internalData)}

ProviderKeys == {TrimmedRef(providerData, k) : k \in 1..Len(providerData)}

MatchedKeys ==
  {TrimmedRef(internalData, outcome.result.matched[k].internal) :
     k \in 1..Len(outcome.result.matched)}

\* a match exists for exactly the keys of both inputs, and the two sides of
\* a match have the same trimmed reference
MatchesByTrimmedKey ==
  /\ MatchedKeys = InternalKeys \cap ProviderKeys
  /\ \A k \in 1..Len(outcome.result.matched) :
       TrimmedRef(internalData, outcome.result.matched[k].internal)
         = TrimmedRef(providerData, outcome.result.matched[k].provider)

\* C7, as claimed: a match is emitted for exactly the trimmed references
\* that are keys of both inputs, both sides of a match have the same trimmed
\* reference, an internal record is internal-only exactly when no provider
\* record has its trimmed reference, and a provider record is provider-only
\* exactly when no internal record has its trimmed reference.
C7_MatchByKeyEveryRecord ==
  Returned =>
    /\ MatchesByTrimmedKey
    /\ \A n \in 1..Len(internalData) :
         (InInternalOnly(n) # {}) <=> (TrimmedRef(internalData, n) \notin ProviderKeys)
    /\ \A j \in 1..Len(providerData) :
         (InProviderOnly(j) # {}) <=> (TrimmedRef(providerData, j) \notin InternalKeys)

\* C7, amended: as claimed for the matches; a record that is the last of its
\* collection with its trimmed reference is only-on-its-side exactly when no
\* record of the other collection has that trimmed reference, and a record
\* followed by one with the same trimmed reference is never listed.
C7_MatchByKeyRetainedRecords ==
  Returned =>
    /\ MatchesByTrimmedKey
    /\ \A n \in 1..Len(internalData) :
         (InInternalOnly(n) # {}) <=>
           (IsLastOfRef(internalData, n)
              /\ TrimmedRef(internalData, n) \notin ProviderKeys)
    /\ \A j \in 1..Len(providerData) :
         (InProviderOnly(j) # {}) <=>
           (IsLastOfRef(providerData, j)
              /\ TrimmedRef(providerData, j) \notin InternalKeys)

\* a match whose two references differ before trimming, next to an
\* internal-only record
C7_Witness ==
  /\ Returned
  /\ \E k \in 1..Len(outcome.result.matched) :
       internalData[outcome.result.matched[k].internal].transaction_reference
         # providerData[outcome.result.matched[k].provider].transaction_reference
  /\ Len(outcome.result.internalOnly) > 0

\* C8: of several records of one collection with the same trimmed reference
\* only the last occurs in the result (matched or only-on-one-side);
\* totalInternal and totalProvider are the raw input lengths and matchRate
\* is matched / raw internal length * 100 (two internal rows sharing one
\* matched reference: matched = 1, totalInternal = 2, matchRate = 50).
C8_DuplicateReferencePolicy ==
  Returned =>
    LET stats == outcome.result.stats IN
    /\ \A n \in 1..Len(internalData), l \in 1..Len(internalData) :
         (n < l /\ TrimmedRef(internalData, n) = TrimmedRef(internalData, l)
            /\ IsLastOfRef(internalData, l))
         => (InternalOccurrences(n) = 0 /\ InternalOccurrences(l) > 0)
    /\ \A j \in 1..Len(providerData), l \in 1..Len(providerData) :
         (j < l /\ TrimmedRef(providerData, j) = TrimmedRef(providerData, l)
            /\ IsLastOfRef(providerData, l))
         => (ProviderOccurrences(j) = 0 /\ ProviderOccurrences(l) > 0)
    /\ stats.totalInternal = Len(internalData)
    /\ stats.totalProvider = Len(providerData)
    /\ stats.matched = Len(outcome.result.matched)
    /\ Len(internalData) > 0 =>
         stats.matchRate.num * Len(internalData)
           = stats.matched * 100 * stats.matchRate.den
    /\ (Len(internalData) = 2 /\ stats.matched = 1
          /\ TrimmedRef(internalData, 1) = TrimmedRef(internalData, 2))
       => (stats.totalInternal = 2
             /\ stats.matchRate.num = 50 * stats.matchRate.den)

\* two internal rows share the one matched reference
C8_Witness ==
  /\ Returned
  /\ Len(internalData) = 2
  /\ TrimmedRef(internalData, 1) = TrimmedRef(internalData, 2)
  /\ outcome.result.stats.matched = 1
  /\ outcome.result.matched[1].internal = 2

\* C9: 0 <= matchRate <= 100 with a non-zero denominator; matchRate is 0
\* when the internal collection is empty; when the provider collection is
\* empty matchRate is 0 and every retained internal record is internal-only.
C9_MatchRateBounds ==
  Returned =>
    LET rate == outcome.result.stats.matchRate IN
    /\ rate.den > 0
    /\ 0 <= rate.num
    /\ rate.num <= 100 * rate.den
    /\ internalData = <<>> => rate.num = 0
    /\ providerData = <<>> =>
         /\ rate.num = 0
         /\ outcome.result.matched = <<>>
         /\ \A n \in 1..Len(internalData) :
              IsLastOfRef(internalData, n) => InInternalOnly(n) # {}

\* an empty internal collection reconciled against a non-empty provider one
C9_Witness ==
  /\ Returned
  /\ internalData = <<>>
  /\ providerData # <<>>

IsPresent(v) == v.t \notin {"undefined", "null"}

\* the values differ under the field's comparison: an amount difference that
\* is not below 0.01 (a difference involving NaN is not below anything),
\* status and date unequal after lower-casing
Differ(field, iv, pv) ==
  IF field = "amount"
  THEN ~(ToAmount(iv).t = "num" /\ ToAmount(pv).t = "num"
           /\ ToAmount(iv).n - ToAmount(pv).n < 10
           /\ ToAmount(pv).n - ToAmount(iv).n < 10)
  ELSE ToLowerCase(iv.s) # ToLowerCase(pv.s)

MismatchesOf(m, field) ==
  {k \in 1..Len(m.mismatches) : m.mismatches[k].field = field}

\* C10: in every match, a FieldMismatch for amount, status or date is
\* recorded (once, with both raw values) if and only if both sides have a
\* value for the field and the values differ under the field's comparison;
\* the mismatch list is empty iff no field differs with both sides present;
\* no mismatch is recorded for any other field.
C10_MismatchRule ==
  Returned =>
    \A k \in 1..Len(outcome.result.matched) :
      LET m == outcome.result.matched[k]
          internal == internalData[m.internal]
          provider == providerData[m.provider]
          ShouldRecord(f) == /\ IsPresent(internal[f])
                             /\ IsPresent(provider[f])
                             /\ Differ(f, internal[f], provider[f])
      IN /\ \A f \in {"amount", "status", "date"} :
              /\ Cardinality(MismatchesOf(m, f)) = IF ShouldRecord(f) THEN 1 ELSE 0
              /\ \A x \in MismatchesOf(m, f) :
                   /\ m.mismatches[x].internalValue = internal[f]
                   /\ m.mismatches[x].providerValue = provider[f]
         /\ \A x \in 1..Len(m.mismatches) :
              m.mismatches[x].field \in {"amount", "status", "date"}
         /\ (m.mismatches = <<>>) <=>
              (\A f \in {"amount", "status", "date"} : ~ShouldRecord(f))

\* a match whose amount differs, whose status is absent on one side and
\* whose date is equal up to case
C10_Witness ==
  /\ Returned
  /\ Len(outcome.result.matched) = 1
  /\ Len(internalData) = 1
  /\ Len(providerData) = 1
  /\ IsPresent(internalData[1].status) /\ ~IsPresent(providerData[1].status)
  /\ IsPresent(internalData[1].date)
  /\ IsPresent(providerData[1].date)
  /\ internalData[1].date # providerData[1].date
  /\ Len(outcome.result.matched[1].mismatches) = 1
  /\ outcome.result.matched[1].mismatches[1].field = "amount"

\* both amounts of a match are numbers (held as numbers or parsed from text)
NumericAmounts(iv, pv) ==
  /\ IsPresent(iv)
  /\ IsPresent(pv)
  /\ ToAmount(iv).t = "num"
  /\ ToAmount(pv).t = "num"

\* |internal - provider| of two numeric amounts, in thousandths
AmountGap(iv, pv) == Abs(ToAmount(iv).n - ToAmount(pv).n)

C12_AtMostOneMatch ==
  Returned =>
    /\ \A k \in 1..Len(outcome.result.matched) :
         \A l \in 1..Len(outcome.result.matched) :
           k # l =>
             /\ TrimmedRef(internalData, outcome.result.matched[k].internal)
                  # TrimmedRef(internalData, outcome.result.matched[l].internal)
             /\ TrimmedRef(providerData, outcome.result.matched[k].provider)
                  # TrimmedRef(providerData, outcome.result.matched[l].provider)
    /\ \A j \in 1..Len(providerData) :
         /\ Cardinality(InMatchedProvider(j)) <= 1
         /\ InMatchedProvider(j) # {} => InProviderOnly(j) = {}

\* two matches, one of them with a reference that the provider input repeats
C12_Witness ==
  /\ Returned
  /\ Len(outcome.result.matched) = 2
  /\ HasDuplicateRef(providerData)

\* the position at which a trimmed reference first occurs in a collection
FirstOccurrence(data, key) ==
  CHOOSE k \in 1..Len(data) :
    /\ TrimmedRef(data, k) = key
    /\ \A l \in 1..(k - 1) : TrimmedRef(data, l) # key

\* the records listed, in the order listed, follow the order in which their
\* trimmed references first occur in the collection
InFirstOccurrenceOrder(listed, data) ==
  \A k \in 1..Len(listed) :
    \A l \in (k + 1)..Len(listed) :
      FirstOccurrence(data, TrimmedRef(data, listed[k]))
        < FirstOccurrence(data, TrimmedRef(data, listed[l]))

MatchedInternals ==
  [k \in 1..Len(outcome.result.matched) |-> outcome.result.matched[k].internal]

\* C13: the references of matched and of internalOnly are in the order of
\* their first occurrence in the internal input, those of providerOnly in the
\* order of their first occurrence in the provider input; a repeated
\* reference keeps the position of its first occurrence although the record
\* listed is the later one.
C13_FirstInsertionOrder ==
  Returned =>
    /\ InFirstOccurrenceOrder(MatchedInternals, internalData)
    /\ InFirstOccurrenceOrder(outcome.result.internalOnly, internalData)
    /\ InFirstOccurrenceOrder(outcome.result.providerOnly, providerData)

\* the internal input is A, B, A again: the match of A is listed first and
\* holds the third record
C13_Witness ==
  /\ Returned
  /\ Len(outcome.result.matched) = 2
  /\ outcome.result.matched[1].internal = 3
  /\ outcome.result.matched[2].internal = 2

\* the latest call was the second one over the same two collections
CalledTwice == previous # NoOutcome

\* the step is a call of reconcileTransactions
MatcherCalled == outcome' # outcome \/ previous' # previous

\* both calls threw, or both returned the same matched, internalOnly,
\* providerOnly and stats
SameResult(first, second) ==
  /\ first.threw = second.threw
  /\ ~second.threw => first.result = second.result

LacksReference(data) ==
  \E k \in 1..Len(data) : ~IsPresent(data[k].transaction_reference)

\* C15: when a record lacking a reference reaches reconcileTransactions the
\* call does not throw: it returns a result.
C15_MissingReferenceSkipped ==
  (outcome # NoOutcome
     /\ (LacksReference(internalData) \/ LacksReference(providerData)))
  => Returned

\* the README's basic sample pair has been reconciled
SampleReconciled ==
  /\ internalData = SampleInternal
  /\ providerData = SampleProvider
  /\ Returned

PerfectMatches ==
  {k \in 1..Len(outcome.result.matched) :
     outcome.result.matched[k].mismatches = <<>>}

MatchesWithMismatches ==
  {k \in 1..Len(outcome.result.matched) :
     outcome.result.matched[k].mismatches # <<>>}

\* the trimmed references of a list of records of a collection
RefsOf(listed, data) == [k \in 1..Len(listed) |-> TrimmedRef(data, listed[k])]

C28_NoMismatchOfIdenticalValues ==
  Returned =>
    \A k \in 1..Len(outcome.result.matched) :
      \A x \in 1..Len(outcome.result.matched[k].mismatches) :
        outcome.result.matched[k].mismatches[x].internalValue
          # outcome.result.matched[k].mismatches[x].providerValue

\* ------------------------------------------------------------------------
\* Properties of the Batch Orchestrator
\* ------------------------------------------------------------------------
\* a call has ended: its promise is resolved or rejected
CallEnded == pc = "idle" /\ runs > 0

\* reading the pair's files or running the Matcher on them throws: a file
\* is missing or a record has no reference
ProcessingThrows(pair) ==
  \/ pair.internalFile = Undefined
  \/ pair.providerFile = Undefined
  \/ \E k \in 1..Len(pair.internalFile.data) :
       ~IsPresent(pair.internalFile.data[k].transaction_reference)
  \/ \E k \in 1..Len(pair.providerFile.data) :
       ~IsPresent(pair.providerFile.data[k].transaction_reference)

\* C1: when a call whose callbacks return normally has ended, whatever
\* pairs threw while their files were read or the Matcher ran, the promise
\* is resolved with a result, every pair was processed and is completed or
\* failed, and exactly the pairs whose processing threw are failed.
C1_PartialFailureIsolation ==
  (CallEnded /\ ~callbackThrew) =>
    /\ promise = "resolved"
    /\ returned # Undefined
    /\ Len(processedPairs) = Len(filePairs)
    /\ \A k \in 1..Len(filePairs) :
         /\ \E x \in 1..Len(processedPairs) : processedPairs[x] = k
         /\ filePairs[k].status \in {"completed", "failed"}
         /\ filePairs[k].status = "failed" <=> ProcessingThrows(filePairs[k])

\* a call has ended in which the first pair threw and a later one completed
C1_Witness ==
  /\ CallEnded
  /\ ~callbackThrew
  /\ Len(filePairs) = 2
  /\ ProcessingThrows(filePairs[1])
  /\ filePairs[1].status = "failed"
  /\ filePairs[2].status = "completed"

\* C2: no error raised while a pair is processed escapes the call, whether
\* raised by reading the files, by the Matcher or by a callback: the promise
\* of a call never rejects, and a call that has ended has resolved with every
\* pair processed.
C2_NoErrorEscapes ==
  /\ promise # "rejected"
  /\ CallEnded => (promise = "resolved" /\ Len(processedPairs) = Len(filePairs))

StatusStepAllowed(before, after) ==
  \/ before = after
  \/ before = "pending" /\ after = "processing"
  \/ before = "processing" /\ after \in {"completed", "failed"}

\* C3: every status change of a pair is pending -> processing or
\* processing -> completed / failed, over any sequence of calls on the same
\* FilePair objects; a completed or failed pair never changes status again.
C3_StatusStateMachine ==
  [][\A k \in 1..Len(filePairs) :
       StatusStepAllowed(filePairs[k].status, filePairs'[k].status)]_vars

ProcessingPairs == {k \in 1..Len(filePairs) : filePairs[k].status = "processing"}

\* a pair starts only when every pair before it is completed or failed
StartsInOrder ==
  \A k \in 1..Len(filePairs) :
    (filePairs[k].status # "processing" /\ filePairs'[k].status = "processing")
      => \A x \in 1..(k - 1) : filePairs[x].status \in {"completed", "failed"}

\* the result lists the submitted pairs, each once, in the submitted order
ReturnedInOrder ==
  returned # Undefined =>
    returned.filePairs = [k \in 1..Len(filePairs) |-> k]

\* C4: within a call the pairs are processed one at a time in the given
\* order: at most one pair is processing at any moment, a pair starts only
\* after all pairs before it are completed or failed, and the returned
\* filePairs are the N submitted pairs in the submitted order.
C4_SequentialInOrder ==
  [][/\ Cardinality(ProcessingPairs') <= 1
     /\ StartsInOrder
     /\ ReturnedInOrder']_vars

\* a call over two pairs has resolved
C4_Witness ==
  /\ returned # Undefined
  /\ Len(returned.filePairs) = 2
  /\ \A k \in 1..2 : filePairs[k].status \in {"completed", "failed"}

CompletedPairs == {k \in 1..Len(filePairs) : filePairs[k].status = "completed"}

FailedPairs == {k \in 1..Len(filePairs) : filePairs[k].status = "failed"}

\* the sum of a ReconciliationStats field over a set of pairs
RECURSIVE SumOverPairs(_, _)
SumOverPairs(ks, field) ==
  IF ks = {} THEN 0
  ELSE LET k == CHOOSE x \in ks : TRUE
       IN filePairs[k].result.stats[field] + SumOverPairs(ks \ {k}, field)

\* C5: in the result of a call, successfulPairs is the number of completed
\* pairs, failedPairs the number of failed pairs, totalFilePairs is N, and
\* each transaction total is the sum of the field of the results of the
\* completed pairs only; a failed pair contributes nothing.
C5_StatsCountCompletedOnly ==
  returned # Undefined =>
    LET stats == returned.aggregateStats IN
    /\ stats.totalFilePairs = Len(filePairs)
    /\ stats.successfulPairs = Cardinality(CompletedPairs)
    /\ stats.failedPairs = Cardinality(FailedPairs)
    /\ stats.totalTransactionsInternal = SumOverPairs(CompletedPairs, "totalInternal")
    /\ stats.totalTransactionsProvider = SumOverPairs(CompletedPairs, "totalProvider")
    /\ stats.totalMatched = SumOverPairs(CompletedPairs, "matched")
    /\ stats.totalInternalOnly = SumOverPairs(CompletedPairs, "internalOnly")
    /\ stats.totalProviderOnly = SumOverPairs(CompletedPairs, "providerOnly")

\* a result over one completed pair and one failed pair whose files hold
\* records and which still carries a result
C5_Witness ==
  /\ returned # Undefined
  /\ Len(filePairs) = 2
  /\ filePairs[1].status = "failed"
  /\ filePairs[1].result # Undefined
  /\ filePairs[1].result.stats.totalInternal > 0
  /\ filePairs[2].status = "completed"
  /\ returned.aggregateStats.totalTransactionsInternal > 0

\* a file is missing on one side, or a file has zero records
InvalidPair(pair) ==
  \/ pair.internalFile = Undefined
  \/ pair.providerFile = Undefined
  \/ pair.internalFile.data = <<>>
  \/ pair.providerFile.data = <<>>

\* C16: an invalid pair met during a run (a file missing on one side, or a
\* file with zero records) ends in status failed with an error message, and
\* the remaining pairs are still processed.
C16_InvalidPairFails ==
  /\ \A x \in 1..Len(processedPairs) :
       InvalidPair(filePairs[processedPairs[x]]) =>
         /\ filePairs[processedPairs[x]].status = "failed"
         /\ filePairs[processedPairs[x]].error # Undefined
  /\ (CallEnded /\ ~callbackThrew) => Len(processedPairs) = Len(filePairs)

\* the call is suspended: control is with the event loop until the timer of
\* the awaited delay fires
Suspended == pc = "await"

\* C18: the call suspends only between pairs: whenever it has yielded
\* control, no pair is in status processing.
C18_SuspendsOnlyBetweenPairs == Suspended => ProcessingPairs = {}

\* C19: in every BatchStats overallMatchRate is totalMatched /
\* totalTransactionsInternal * 100 when totalTransactionsInternal > 0 and 0
\* otherwise, lies between 0 and 100 and never has a zero denominator, for an
\* empty batch, a batch whose pairs all failed and a batch whose completed
\* pairs have empty internal files alike; averageProcessingTime is 0 for an
\* empty batch.
C19_AggregateRatesDefined ==
  returned # Undefined =>
    LET stats == returned.aggregateStats IN
    /\ stats.overallMatchRate.den > 0
    /\ stats.totalTransactionsInternal > 0 =>
         stats.overallMatchRate.num * stats.totalTransactionsInternal
           = stats.totalMatched * 100 * stats.overallMatchRate.den
    /\ stats.totalTransactionsInternal = 0 => stats.overallMatchRate.num = 0
    /\ 0 <= stats.overallMatchRate.num
    /\ stats.overallMatchRate.num <= 100 * stats.overallMatchRate.den
    /\ stats.averageProcessingTime.den > 0
    /\ filePairs = <<>> => stats.averageProcessingTime.num = 0

\* a batch of a completed pair whose internal file is empty and a failed
\* pair: nothing to divide by
C19_Witness ==
  /\ returned # Undefined
  /\ Len(filePairs) = 2
  /\ filePairs[1].status = "completed"
  /\ filePairs[1].internalFile.data = <<>>
  /\ filePairs[2].status = "failed"
  /\ returned.aggregateStats.totalTransactionsInternal = 0
  /\ returned.aggregateStats.totalTransactionsProvider > 0

\* the events of a pair as far as the Matcher, in the claimed order
EventsToMatcher(position, total, pair) ==
  <<StatusSet("processing"), ProgressCall(position, total, pair), MatcherCall>>

EventsOfCompleted(position, total, pair) ==
  EventsToMatcher(position, total, pair)
    \o <<StatusSet("completed"), PairCall("onPairCompleted", pair)>>

EventsOfFailed(position, total, pair) ==
  EventsToMatcher(position, total, pair)
    \o <<StatusSet("failed"), PairCall("onPairFailed", pair)>>

IsPrefix(s, t) == Len(s) <= Len(t) /\ s = SubSeq(t, 1, Len(s))

\* a pair has been started and not yet pushed to processedPairs
PairInProgress == pc \notin {"idle", "loop"}

\* C17: while a pair is in progress its events so far are the beginning of
\* one of the two claimed sequences: status processing, onProgress(position,
\* N, pair) with position one more than the number of pairs done, the
\* Matcher, then either status completed and onPairCompleted or status
\* failed and onPairFailed; when the pair is done the sequence is complete
\* and is the one of the pair's final status, with result and processedAt
\* (completed) or error and processedAt (failed) attached.
C17_EventOrder ==
  PairInProgress =>
    /\ \/ IsPrefix(events, EventsOfCompleted(Len(processedPairs) + 1,
                                              Len(filePairs), Current))
       \/ IsPrefix(events, EventsOfFailed(Len(processedPairs) + 1,
                                           Len(filePairs), Current))
    /\ pc = "push" =>
         \/ /\ filePairs[Current].status = "completed"
            /\ filePairs[Current].result # Undefined
            /\ filePairs[Current].processedAt # Undefined
            /\ events = EventsOfCompleted(Len(processedPairs) + 1,
                                          Len(filePairs), Current)
         \/ /\ filePairs[Current].status = "failed"
            /\ filePairs[Current].error # Undefined
            /\ filePairs[Current].processedAt # Undefined
            /\ events = EventsOfFailed(Len(processedPairs) + 1,
                                       Len(filePairs), Current)

\* C26: in every returned BatchReconciliationResult, over any sequence of
\* runs and whatever the callbacks do, a pair carries a result if and only
\* if its status is completed, and an error message if and only if its
\* status is failed.
C26_OutcomeFieldsAgreeWithStatus ==
  returned # Undefined =>
    \A x \in 1..Len(returned.filePairs) :
      /\ (filePairs[returned.filePairs[x]].result # Undefined)
           <=> (filePairs[returned.filePairs[x]].status = "completed")
      /\ (filePairs[returned.filePairs[x]].error # Undefined)
           <=> (filePairs[returned.filePairs[x]].status = "failed")

\* C27: in every returned result successfulPairs + failedPairs =
\* totalFilePairs = the number of submitted pairs, and every submitted pair
\* is either completed or failed.
C27_EveryPairCountedOnce ==
  returned # Undefined =>
    /\ returned.aggregateStats.successfulPairs
         + returned.aggregateStats.failedPairs
         = returned.aggregateStats.totalFilePairs
    /\ returned.aggregateStats.totalFilePairs = Len(filePairs)
    /\ CompletedPairs \cup FailedPairs = 1..Len(filePairs)

\* a result over a completed pair without any match and a failed pair
C27_Witness ==
  /\ returned # Undefined
  /\ Len(filePairs) = 2
  /\ filePairs[1].status = "completed"
  /\ filePairs[1].result.stats.matched = 0
  /\ filePairs[2].status = "failed"
  /\ returned.aggregateStats.successfulPairs = 1
  /\ returned.aggregateStats.failedPairs = 1

\* ------------------------------------------------------------------------
\* Properties of the App
\* ------------------------------------------------------------------------
\* the step in which the suspended handleReconciliation goes on and the
\* Matcher returns
ReconciliationFinishes ==
  /\ inFlight.kind = "single"
  /\ inFlight'.kind = "none"
  /\ ~reconcileTransactions(inFlight.internalFile.data,
                            inFlight.providerFile.data).threw

\* C29: when handleReconciliation finishes without error, the
\* reconciliationResult state is the Matcher's ReconciliationResult: it has
\* matched, internalOnly, providerOnly and stats, and stats.totalInternal and
\* stats.totalProvider are the record counts of the two files.
C29_StateHoldsMatcherResult ==
  [][ReconciliationFinishes =>
       /\ {"matched", "internalOnly", "providerOnly", "stats"}
             \subseteq DOMAIN app'.reconciliationResult
       /\ app'.reconciliationResult.stats.totalInternal =
             Len(inFlight.internalFile.data)
       /\ app'.reconciliationResult.stats.totalProvider =
             Len(inFlight.providerFile.data)]_vars

\* the step in which a batch run ends after resetAll emptied the list it was
\* started on
AbandonedBatchFinishes ==
  /\ inFlight.kind = "batch"
  /\ inFlight'.kind = "none"
  /\ Len(app.filePairs) = 0

\* C30: if resetAll or switchMode runs while handleBatchReconciliation is
\* awaiting, then after the run finishes batchResult is still null, filePairs
\* is still empty and isProcessing is false.
C30_ResetCancelsBatch ==
  [][AbandonedBatchFinishes =>
       /\ app'.batchResult = Null
       /\ Len(app'.filePairs) = 0
       /\ ~app'.isProcessing]_vars

\* the list of pairs the state holds
StatePairs == Objects(filePairs, app.filePairs)

\* a pair with both files present and at least one record in each
CompletePair(pair) ==
  /\ pair.internalFile # Undefined
  /\ pair.providerFile # Undefined
  /\ Len(pair.internalFile.data) >= 1
  /\ Len(pair.providerFile.data) >= 1

AllComplete(pairs) ==
  /\ Len(pairs) > 0
  /\ \A x \in 1..Len(pairs) : CompletePair(pairs[x])

\* C24: validateFilePairs returns valid = true exactly when the list is
\* non-empty and every pair has both files present with at least one record
\* each, otherwise valid = false with at least one error message; when it is
\* invalid no step taken in batch mode, that of handleBatchReconciliation
\* included, starts anything: no pair leaves pending, isProcessing stays
\* false, the progress and the batch result stay as they are and no run is in
\* flight.
C24_InvalidStartsNothing ==
  [][/\ validateFilePairs(StatePairs).valid <=> AllComplete(StatePairs)
     /\ ~validateFilePairs(StatePairs).valid =>
           Len(validateFilePairs(StatePairs).errors) >= 1
     /\ (/\ app.processingMode = "batch"
         /\ inFlight.kind = "none"
         /\ ~validateFilePairs(StatePairs).valid) =>
           /\ \A x \in 1..Len(app'.filePairs) :
                 filePairs'[app'.filePairs[x]].status = "pending"
           /\ app'.isProcessing = FALSE
           /\ app.isProcessing = FALSE
           /\ app'.batchResult = app.batchResult
           /\ app'.batchProgress = app.batchProgress
           /\ inFlight'.kind = "none"]_vars

\* handleBatchReconciliation ran on a list with a pair whose provider file
\* has no records: the error is set and nothing else
C24_Witness ==
  /\ app.error # Null
  /\ app.processingMode = "batch"
  /\ Len(app.filePairs) = 2
  /\ ~validateFilePairs(StatePairs).valid
  /\ CompletePair(StatePairs[1])
  /\ StatePairs[2].providerFile # Undefined
  /\ StatePairs[2].internalFile # Undefined
  /\ Len(StatePairs[2].providerFile.data) = 0
  /\ inFlight.kind = "none"
  /\ ~app.isProcessing

\* ------------------------------------------------------------------------
\* Properties of the StorageService
\* ------------------------------------------------------------------------
\* the ids of the records of a history, the oldest first
Ids(item) ==
  [k \in 1..Len(getHistoricalRecords(item)) |->
     getHistoricalRecords(item)[k].id]

\* a save succeeded in this step
SaveSucceeds == nextId' = nextId + 1 /\ lastSaved' # Null

\* the last n entries of a list
LastOf(list, n) == SubSeq(list, Len(list) - n + 1, Len(list))

\* C25: after any saveReconciliationResult, importHistoricalData or
\* clearHistoricalRecords the history holds at most 100 records; a save that
\* succeeds puts the new record last, keeps the records before it in their
\* order and drops a record only when there would be more than 100, and
\* then the oldest one.
C25_CappedFifo ==
  [][/\ Len(Ids(stored')) <= MAX_HISTORICAL_RECORDS
     /\ SaveSucceeds =>
          /\ Ids(stored')[Len(Ids(stored'))] = Num(nextId)
          /\ IF Len(Ids(stored)) < MAX_HISTORICAL_RECORDS
             THEN Ids(stored') = Append(Ids(stored), Num(nextId))
             ELSE Ids(stored') =
                    Append(LastOf(Ids(stored), MAX_HISTORICAL_RECORDS - 1),
                           Num(nextId))]_vars

\* a save succeeded on a full history: the oldest record is gone
C25_Witness ==
  /\ lastSaved # Null
  /\ Len(Ids(stored)) = MAX_HISTORICAL_RECORDS
  /\ Ids(stored)[1] = Num(2)
  /\ Ids(stored)[MAX_HISTORICAL_RECORDS] = Num(FirstNewId)

\* C21: a ReconciliationResult or BatchReconciliationResult r survives the
\* JSON round trip: deepClone(r), and the result of the record that
\* saveReconciliationResult stored and getHistoricalRecords reads back, equal
\* r, every field keeping its value and type.
C21_RoundTripPreserves ==
  lastSaved # Null =>
    /\ deepClone(lastSaved) = lastSaved
    /\ getHistoricalRecords(stored)[Len(stored.records)].result = lastSaved

MatchRateInsights(insights) ==
  SelectSeq(insights,
            LAMBDA x : x.id \in {"high-match-rate", "good-match-rate",
                                 "low-match-rate"})

\* C23: generateInsights emits exactly one match rate insight: excellent
\* iff the rate is at least 95, good iff it is at least 85 and below 95, low
\* iff it is below 85; the summary card applies the same thresholds to the
\* rate of a single result.
C23_MatchRateClassification ==
  (analytics # Null /\ analytics.of = "generateInsights") =>
    /\ Len(MatchRateInsights(analytics.value)) = 1
    /\ MatchRateInsights(analytics.value)[1].title = "Excellent Match Rate"
         <=> MatchRateOf(currentResult).num
               >= 95 * MatchRateOf(currentResult).den
    /\ MatchRateInsights(analytics.value)[1].title = "Good Match Rate"
         <=> /\ MatchRateOf(currentResult).num
                  >= 85 * MatchRateOf(currentResult).den
             /\ MatchRateOf(currentResult).num
                  < 95 * MatchRateOf(currentResult).den
    /\ MatchRateInsights(analytics.value)[1].title = "Low Match Rate Alert"
         <=> MatchRateOf(currentResult).num
               < 85 * MatchRateOf(currentResult).den
    /\ "stats" \in DOMAIN currentResult =>
         /\ CardTrend(currentResult.stats) = "excellent"
              <=> MatchRateInsights(analytics.value)[1].id = "high-match-rate"
         /\ CardTrend(currentResult.stats) = "good"
              <=> MatchRateInsights(analytics.value)[1].id = "good-match-rate"
         /\ CardTrend(currentResult.stats) = "needs-attention"
              <=> MatchRateInsights(analytics.value)[1].id = "low-match-rate"

\* generateInsights classified a single result whose rate is exactly 95
C23_Witness ==
  /\ analytics # Null
  /\ analytics.of = "generateInsights"
  /\ "stats" \in DOMAIN currentResult
  /\ currentResult.stats.totalInternal = 20
  /\ currentResult.stats.matched = 19
  /\ MatchRateInsights(analytics.value)[1].id = "high-match-rate"

====
